---- MODULE Spec2Model ----
(***************************************************************************)
(* Verification model of the Wave scene-to-sound pipeline:                 *)
(*   - audio_prompt.generate_prompts        (prompt compositor)            *)
(*   - image_to_text.validate_json_structure (descriptor validator)        *)
(*   - audioldm2.generate_audio_for_sound_sources (audio stage driver)     *)
(*                                                                         *)
(* Representation of Python values                                         *)
(*   str    : [type |-> "str",  val |-> sequence of symbols]; a symbol is  *)
(*            one character, or one literal fragment of a template         *)
(*   None   : [type |-> "NoneType", val |-> <<>>]                          *)
(*   list   : [type |-> "list", val |-> sequence]                          *)
(*   dict   : a function whose domain is the set of keys that are present  *)
(***************************************************************************)
EXTENDS FiniteSets, Integers, Sequences, TLC

VARIABLES
    pc,                  \* control position of the operation being run
    data,                \* generate_prompts: the descriptor argument
    custom_templates,    \* generate_prompts: the custom_templates argument
    generated_prompts,   \* generate_prompts: the returned list
    json_data,           \* validate_json_structure: the argument
    issues,              \* validate_json_structure: the returned list
    single,              \* audio stage: the single argument (None in batch mode)
    sound_source_fs,     \* audio stage: descriptor files under sound_source_dir
    json_files,          \* audio stage: the sorted list of descriptor paths
    file_index,          \* audio stage: position of the outer loop in json_files
    prompts,             \* audio stage: the prompts of the current file
    idx,                 \* audio stage: position of the inner loop (from 1)
    total_audio_generated,  \* audio stage: the counter of saved clips
    wav_files,           \* audio stage: clips present under result_dir
    prompt_files,        \* audio stage: prompts.json files under result_dir
    out_dirs,            \* audio stage: per-image directories under result_dir
    generator,           \* audio stage: the generator, seeded or drawn from
    events,              \* audio stage: what was attempted, in order
    dumped_prompts,      \* prompts.json round trip: the list given to json.dump
    prompts_json_text,   \* prompts.json round trip: the text of the file
    loaded_prompts,      \* prompts.json round trip: the value json.load returns
    image_files,         \* stage 1: the images found under data_dir, sorted
    image_index,         \* stage 1: position of the loop in image_files (from 1)
    all_results,         \* stage 1: one result per processed image
    successful_results,  \* stage 1: the results with success = True
    failed_results,      \* stage 1: the results with success = False
    insufficient_variants,  \* stage 1: successful results below the minimum
    parsed,              \* stage 1: what the model answered for the last image
    descriptor_saved,    \* stage 1: whether the last descriptor could be written
    vlm_results,         \* pipeline: what stage 1 returned to run_full_pipeline
    results_keys,        \* pipeline: the keys of results
    dependencies_ok,     \* pipeline: what check_dependencies returns
    skip_vlm,            \* pipeline: the skip_vlm argument
    skip_audio,          \* pipeline: the skip_audio argument
    single_image,        \* pipeline: the single_image argument (None for a batch)
    steps_completed,     \* pipeline: results["steps_completed"]
    errors               \* pipeline: results["errors"]

prompt_vars == <<data, custom_templates, generated_prompts>>
validator_vars == <<json_data, issues>>
audio_vars ==
    <<single, sound_source_fs, json_files, file_index, prompts, idx, total_audio_generated,
      wav_files, prompt_files, out_dirs, generator, events>>
roundtrip_vars == <<dumped_prompts, prompts_json_text, loaded_prompts>>
batch_vars ==
    <<image_files, image_index, all_results, successful_results, failed_results,
      insufficient_variants>>
stage1_vars == <<batch_vars, parsed, descriptor_saved>>
pipeline_vars ==
    <<vlm_results, results_keys, dependencies_ok, skip_vlm, skip_audio, single_image,
      steps_completed, errors>>
vars ==
    <<pc, prompt_vars, validator_vars, audio_vars, roundtrip_vars, stage1_vars,
      pipeline_vars>>

\* what an operation leaves alone because it belongs to another operation
beside_prompt_vars ==
    <<validator_vars, audio_vars, roundtrip_vars, stage1_vars, pipeline_vars>>
beside_validator_vars ==
    <<prompt_vars, audio_vars, roundtrip_vars, stage1_vars, pipeline_vars>>
beside_audio_vars ==
    <<prompt_vars, validator_vars, roundtrip_vars, stage1_vars, pipeline_vars>>
beside_roundtrip_vars ==
    <<prompt_vars, validator_vars, audio_vars, stage1_vars, pipeline_vars>>
beside_pipeline_vars == <<prompt_vars, validator_vars, roundtrip_vars>>

(***************************************************************************)
(* Bounds of the explored inputs.                                          *)
(***************************************************************************)
MaxSources == 2
MaxVariants == 2
MaxFiles == 2
MaxClips == 4

(***************************************************************************)
(* Python values.                                                          *)
(***************************************************************************)
JStr(s) == [type |-> "str", val |-> s]
JList(l) == [type |-> "list", val |-> l]
JNull == [type |-> "NoneType", val |-> <<>>]
EmptyDict == [k \in {} |-> JNull]

\* dict.get(key, default)
Get(d, key, default) == IF key \in DOMAIN d THEN d[key] ELSE default

\* truth value of a str or None, as tested by `if x`
Truthy(v) == v.type # "NoneType" /\ v.val # <<>>

\* str(v) as inserted by an f-string or by str.format
ToStr(v) == IF v.type = "NoneType" THEN <<"N", "o", "n", "e">> ELSE v.val

UpperCase == <<"A", "B", "C", "D", "E", "F", "G", "H", "I", "J", "K", "L", "M",
               "N", "O", "P", "Q", "R", "S", "T", "U", "V", "W", "X", "Y", "Z">>
LowerCase == <<"a", "b", "c", "d", "e", "f", "g", "h", "i", "j", "k", "l", "m",
               "n", "o", "p", "q", "r", "s", "t", "u", "v", "w", "x", "y", "z">>

LowerCh(c) ==
    IF \E i \in 1..Len(UpperCase) : UpperCase[i] = c
    THEN LowerCase[CHOOSE i \in 1..Len(UpperCase) : UpperCase[i] = c]
    ELSE c

\* str.lower()
Lower(s) == [i \in 1..Len(s) |-> LowerCh(s[i])]

\* sep.join(list)
RECURSIVE Join(_, _)
Join(sep, list) ==
    IF list = <<>> THEN <<>>
    ELSE IF Len(list) = 1 THEN Head(list)
    ELSE Head(list) \o sep \o Join(sep, Tail(list))

\* template.format(**kw): every placeholder symbol is replaced by str(value)
RECURSIVE Format(_, _)
Format(template, kw) ==
    IF template = <<>> THEN <<>>
    ELSE (IF Head(template) \in DOMAIN kw
          THEN ToStr(kw[Head(template)])
          ELSE <<Head(template)>>) \o Format(Tail(template), kw)

(***************************************************************************)
(* Literal fragments of the prompt texts of generate_prompts.              *)
(***************************************************************************)
CoreHead == "Generate a high-fidelity, realistic sound effect.\nThe sound source is '"
CoreMadeOf == "' made of '"
CoreAction == "'.\nThe action is a '"
CoreCreating == "', creating a sound with a '"
CoreTimbre == "' timbre.\n"
InstrUse == "For this, use the sonic character of a '"
InstrReference == "' as an inspirational reference for the sound's quality, especially its '"
InstrNotNote == "' aspects.\nThe final audio must be a completely natural sound, not a musical note."
PlainTail == "The recording should be clean and detailed, sounding authentic as if captured in a real-world environment. Focus on realism, not musicality."
CtxScene == "Context: The scene is '"
CtxMood == "'. The overall mood is '"
CtxEnd == "'.\n\n"
ClosingHead == "\n\nCrucially, the generated sound must be consistent with the '"
ClosingTail == "' mood and not feel out of place."

DefaultScene == JStr(<<"A", " ", "n", "e", "u", "t", "r", "a", "l", " ", "s", "c", "e", "n", "e">>)
DefaultMood == JStr(<<"a", " ", "n", "e", "u", "t", "r", "a", "l", " ", "m", "o", "o", "d">>)
DefaultName == JStr(<<"a", "n", " ", "o", "b", "j", "e", "c", "t">>)
DefaultMaterial == JStr(<<"u", "n", "k", "n", "o", "w", "n", " ", "m", "a", "t", "e", "r", "i", "a", "l">>)
NoneLiteral == <<"n", "o", "n", "e">>
CommaSpace == <<",", " ">>

(***************************************************************************)
(* generate_prompts                                                        *)
(***************************************************************************)
\* custom_templates = {} when the argument is None
TemplatesOf(ct) == IF ct.type = "NoneType" THEN EmptyDict ELSE ct.val

\* mutant: the comparison with "none" is case-sensitive (no .lower())
InstrumentNamedCaseSensitive(instrument) ==
    Truthy(instrument) /\ instrument.val # NoneLiteral

\* the test of the elif branch: instrument and instrument.lower() != "none"
InstrumentNamed(instrument) ==
    Truthy(instrument) /\ Lower(instrument.val) # NoneLiteral

FormatArgs(name, material, play_method, timbre_str, instrument) ==
    ("{name}" :> name) @@ ("{material}" :> material)
    @@ ("{play_method}" :> play_method) @@ ("{timbre_str}" :> JStr(timbre_str))
    @@ ("{instrument}" :> instrument)

\* mutant: the instrument sentence lost its closing "not a musical note" part
InstrumentPromptNoBan(name, material, play_method, timbre_str, instrument) ==
    <<CoreHead>> \o ToStr(name) \o <<CoreMadeOf>> \o ToStr(material)
    \o <<CoreAction>> \o ToStr(play_method) \o <<CoreCreating>> \o timbre_str
    \o <<CoreTimbre>>
    \o <<InstrUse>> \o ToStr(instrument) \o <<InstrReference>> \o timbre_str

InstrumentPrompt(name, material, play_method, timbre_str, instrument) ==
    <<CoreHead>> \o ToStr(name) \o <<CoreMadeOf>> \o ToStr(material)
    \o <<CoreAction>> \o ToStr(play_method) \o <<CoreCreating>> \o timbre_str
    \o <<CoreTimbre>>
    \o <<InstrUse>> \o ToStr(instrument) \o <<InstrReference>> \o timbre_str
    \o <<InstrNotNote>>

PlainPrompt(name, material, play_method, timbre_str) ==
    <<CoreHead>> \o ToStr(name) \o <<CoreMadeOf>> \o ToStr(material)
    \o <<CoreAction>> \o ToStr(play_method) \o <<CoreCreating>> \o timbre_str
    \o <<CoreTimbre>>
    \o <<PlainTail>>

\* mutant: the instrument test is made before the custom-template lookup
CorePromptInstrumentFirst(name, material, play_method, timbre_str, instrument, templates) ==
    IF InstrumentNamed(instrument)
    THEN InstrumentPrompt(name, material, play_method, timbre_str, instrument)
    ELSE IF play_method \in DOMAIN templates
    THEN Format(templates[play_method],
                FormatArgs(name, material, play_method, timbre_str, instrument))
    ELSE PlainPrompt(name, material, play_method, timbre_str)

\* mutant: any non-empty instrument string selects the instrument template
CorePromptAnyInstrument(name, material, play_method, timbre_str, instrument, templates) ==
    IF play_method \in DOMAIN templates
    THEN Format(templates[play_method],
                FormatArgs(name, material, play_method, timbre_str, instrument))
    ELSE IF Truthy(instrument)
    THEN InstrumentPrompt(name, material, play_method, timbre_str, instrument)
    ELSE PlainPrompt(name, material, play_method, timbre_str)

CorePrompt(name, material, play_method, timbre_str, instrument, templates) ==
    IF play_method \in DOMAIN templates
    THEN Format(templates[play_method],
                FormatArgs(name, material, play_method, timbre_str, instrument))
    ELSE IF InstrumentNamed(instrument)
    THEN InstrumentPrompt(name, material, play_method, timbre_str, instrument)
    ELSE PlainPrompt(name, material, play_method, timbre_str)

\* mutant: the closing sentence restates the scene instead of the mood
FinalPromptClosingScene(scene, mood, core_prompt) ==
    <<CtxScene>> \o ToStr(scene) \o <<CtxMood>> \o ToStr(mood) \o <<CtxEnd>>
    \o core_prompt
    \o <<ClosingHead>> \o ToStr(scene) \o <<ClosingTail>>

FinalPrompt(scene, mood, core_prompt) ==
    <<CtxScene>> \o ToStr(scene) \o <<CtxMood>> \o ToStr(mood) \o <<CtxEnd>>
    \o core_prompt
    \o <<ClosingHead>> \o ToStr(mood) \o <<ClosingTail>>

\* body of the inner loop: the record appended for one variant
VariantRecord(scene, mood, name, material, variant, templates) ==
    LET play_method == Get(variant, "play_method", JNull)
        timbre == Get(variant, "timbre", JList(<<>>))
        instrument == Get(variant, "mapping_to_music_instrument", JNull)
        timbre_str == Join(CommaSpace, timbre.val)
    IN  [source_name |-> name,
         play_method |-> play_method,
         prompt |-> JStr(FinalPrompt(scene, mood,
                        CorePrompt(name, material, play_method, timbre_str,
                                   instrument, templates)))]

\* mutant: the loop is left after the first variant of a source
VariantsLoopFirstOnly(scene, mood, name, material, variants, templates) ==
    IF variants = <<>> THEN <<>>
    ELSE <<VariantRecord(scene, mood, name, material, Head(variants), templates)>>

\* inner loop: for variant in source.get("variants", [])
RECURSIVE VariantsLoop(_, _, _, _, _, _)
VariantsLoop(scene, mood, name, material, variants, templates) ==
    IF variants = <<>> THEN <<>>
    ELSE <<VariantRecord(scene, mood, name, material, Head(variants), templates)>>
         \o VariantsLoop(scene, mood, name, material, Tail(variants), templates)

\* outer loop: for source in data.get("sound_sources", [])
RECURSIVE SourcesLoop(_, _, _, _)
SourcesLoop(scene, mood, sources, templates) ==
    IF sources = <<>> THEN <<>>
    ELSE VariantsLoop(scene, mood,
                      Get(Head(sources), "name", DefaultName),
                      Get(Head(sources), "material", DefaultMaterial),
                      Get(Head(sources), "variants", JList(<<>>)).val,
                      templates)
         \o SourcesLoop(scene, mood, Tail(sources), templates)

\* mutant: play_method is read as variant["play_method"], a KeyError when absent
generate_prompts_raises_KeyError(d) ==
    LET sources == Get(d, "sound_sources", JList(<<>>))
    IN  \/ sources.type # "list"
        \/ /\ sources.type = "list"
           /\ \E i \in 1..Len(sources.val) :
                LET variants == Get(sources.val[i], "variants", JList(<<>>))
                IN  \/ variants.type # "list"
                    \/ /\ variants.type = "list"
                       /\ \E j \in 1..Len(variants.val) :
                            \/ Get(variants.val[j], "timbre", JList(<<>>)).type # "list"
                            \/ "play_method" \notin DOMAIN variants.val[j]

\* the call raises: a value that is iterated or joined is not a list
generate_prompts_raises(d) ==
    LET sources == Get(d, "sound_sources", JList(<<>>))
    IN  \/ sources.type # "list"
        \/ /\ sources.type = "list"
           /\ \E i \in 1..Len(sources.val) :
                LET variants == Get(sources.val[i], "variants", JList(<<>>))
                IN  \/ variants.type # "list"
                    \/ /\ variants.type = "list"
                       /\ \E j \in 1..Len(variants.val) :
                            Get(variants.val[j], "timbre", JList(<<>>)).type # "list"

generate_prompts(d, ct) ==
    SourcesLoop(Get(d, "scene_description", DefaultScene),
                Get(d, "mood_description", DefaultMood),
                Get(d, "sound_sources", JList(<<>>)).val,
                TemplatesOf(ct))

(***************************************************************************)
(* Inputs of generate_prompts explored by SpecPrompts.                     *)
(***************************************************************************)
AbsentKey == [type |-> "absent", val |-> <<>>]

\* the dict holding the keys of f whose value is not AbsentKey
MkDict(f) == [k \in {x \in DOMAIN f : f[x].type # "absent"} |-> f[k]]

SeqsUpTo(S, n) == UNION {[1..k -> S] : k \in 0..n}

W_leaf == <<"l", "e", "a", "f">>
W_organic == <<"o", "r", "g", "a", "n", "i", "c">>
W_forest == <<"f", "o", "r", "e", "s", "t">>
W_calm == <<"c", "a", "l", "m">>
W_rustle == <<"r", "u", "s", "t", "l", "e">>
W_tap == <<"t", "a", "p">>
W_soft == <<"s", "o", "f", "t">>
W_airy == <<"a", "i", "r", "y">>
W_oud == <<"O", "u", "d">>

PlayMethodValues == {AbsentKey, JStr(W_rustle), JStr(W_tap)}
TimbreValues == {AbsentKey, JNull, JList(<<>>), JList(<<W_soft, W_airy>>)}
InstrumentValues ==
    {AbsentKey, JNull, JStr(<<>>), JStr(W_oud),
     JStr(<<"N", "o", "n", "e">>), JStr(<<"n", "o", "n", "e">>),
     JStr(<<"N", "O", "N", "E">>)}

\* every combination of the three variant fields
RichVariants ==
    {MkDict([play_method |-> pm, timbre |-> tb, mapping_to_music_instrument |-> ins]) :
        pm \in PlayMethodValues, tb \in TimbreValues, ins \in InstrumentValues}

\* one source with one variant, every field present or absent
RichDescriptors ==
    {MkDict([scene_description |-> sc, mood_description |-> mo,
             sound_sources |-> JList(<<MkDict([name |-> n, material |-> m,
                                               variants |-> JList(<<v>>)])>>)]) :
        sc \in {AbsentKey, JStr(W_forest)}, mo \in {AbsentKey, JStr(W_calm)},
        n \in {AbsentKey, JStr(W_leaf)}, m \in {AbsentKey, JStr(W_organic)},
        v \in RichVariants}

PoolVariants ==
    {[play_method |-> JStr(W_rustle), timbre |-> JList(<<W_soft, W_airy>>),
      mapping_to_music_instrument |-> JStr(<<"N", "o", "n", "e">>)],
     [play_method |-> JStr(W_tap), timbre |-> JList(<<W_soft>>),
      mapping_to_music_instrument |-> JStr(W_oud)]}

StructSources ==
    {MkDict([name |-> JStr(W_leaf), material |-> JStr(W_organic), variants |-> vs]) :
        vs \in {AbsentKey} \cup {JList(s) : s \in SeqsUpTo(PoolVariants, MaxVariants)}}

\* up to MaxSources sources of up to MaxVariants variants each
StructDescriptors ==
    {MkDict([scene_description |-> t, mood_description |-> t, sound_sources |-> ss]) :
        t \in {AbsentKey, JStr(W_calm)},
        ss \in {AbsentKey, JNull} \cup {JList(s) : s \in SeqsUpTo(StructSources, MaxSources)}}

Descriptors == RichDescriptors \cup StructDescriptors

TemplateAll ==
    <<"{name}", "|", "{material}", "|", "{play_method}", "|", "{timbre_str}", "|",
      "{instrument}">>
TemplateShort == <<"A ", "{play_method}", " on ", "{name}", ", again ", "{play_method}">>

CustomTemplateArgs ==
    {JNull,
     [type |-> "dict", val |-> EmptyDict],
     [type |-> "dict", val |-> (JStr(W_rustle) :> TemplateAll)],
     [type |-> "dict", val |-> (JStr(W_rustle) :> TemplateShort)]}

(***************************************************************************)
(* The variables of an operation that a specification does not run.        *)
(***************************************************************************)
PromptsIdle ==
    /\ data = EmptyDict
    /\ custom_templates = JNull
    /\ generated_prompts = <<>>

ValidatorIdle ==
    /\ json_data = EmptyDict
    /\ issues = <<>>

AudioIdle ==
    /\ single = JNull
    /\ sound_source_fs = EmptyDict
    /\ json_files = <<>>
    /\ file_index = 0
    /\ prompts = <<>>
    /\ idx = 0
    /\ total_audio_generated = 0
    /\ wav_files = {}
    /\ prompt_files = {}
    /\ out_dirs = {}
    /\ generator = "seeded"
    /\ events = <<>>

RoundTripIdle ==
    /\ dumped_prompts = <<>>
    /\ prompts_json_text = <<>>
    /\ loaded_prompts = <<>>

Stage1Idle ==
    /\ image_files = <<>>
    /\ image_index = 0
    /\ all_results = <<>>
    /\ successful_results = <<>>
    /\ failed_results = <<>>
    /\ insufficient_variants = <<>>
    /\ parsed = EmptyDict
    /\ descriptor_saved = FALSE

PipelineIdle ==
    /\ vlm_results = EmptyDict
    /\ results_keys = {}
    /\ dependencies_ok = TRUE
    /\ skip_vlm = FALSE
    /\ skip_audio = FALSE
    /\ single_image = JNull
    /\ steps_completed = <<>>
    /\ errors = <<>>

(***************************************************************************)
(* SpecPrompts: one call of generate_prompts(data, custom_templates).      *)
(***************************************************************************)
InitPrompts ==
    /\ pc = "call"
    /\ data \in Descriptors
    /\ custom_templates \in CustomTemplateArgs
    /\ generated_prompts = <<>>
    /\ ValidatorIdle
    /\ AudioIdle
    /\ RoundTripIdle
    /\ Stage1Idle
    /\ PipelineIdle

\* mutant: the call fills the defaults into its argument (dict.setdefault)
GeneratePromptsReturnsSetsDefaults ==
    /\ pc = "call"
    /\ ~generate_prompts_raises(data)
    /\ generated_prompts' = generate_prompts(data, custom_templates)
    /\ data' = [k \in DOMAIN data \cup {"scene_description", "mood_description"} |->
                  IF k \in DOMAIN data THEN data[k]
                  ELSE IF k = "scene_description" THEN DefaultScene ELSE DefaultMood]
    /\ pc' = "returned"
    /\ UNCHANGED <<custom_templates, beside_prompt_vars>>

GeneratePromptsReturns ==
    /\ pc = "call"
    /\ ~generate_prompts_raises(data)
    /\ generated_prompts' = generate_prompts(data, custom_templates)
    /\ pc' = "returned"
    /\ UNCHANGED <<data, custom_templates, beside_prompt_vars>>

\* a second call, with the same two objects as arguments
GeneratePromptsAgain ==
    /\ pc = "returned"
    /\ generated_prompts' = generate_prompts(data, custom_templates)
    /\ pc' = "returned_again"
    /\ UNCHANGED <<data, custom_templates, beside_prompt_vars>>

GeneratePromptsRaises ==
    /\ pc = "call"
    /\ generate_prompts_raises(data)
    /\ pc' = "raised"
    /\ UNCHANGED <<prompt_vars, beside_prompt_vars>>

NextPrompts ==
    \/ GeneratePromptsReturns
    \/ GeneratePromptsRaises
    \/ GeneratePromptsAgain

SpecPrompts == InitPrompts /\ [][NextPrompts]_vars

(***************************************************************************)
(* Properties of generate_prompts, checked under SpecPrompts.              *)
(***************************************************************************)
Returned == pc = "returned"

Sources == Get(data, "sound_sources", JList(<<>>)).val
VariantsOf(source) == Get(source, "variants", JList(<<>>)).val
Templates == TemplatesOf(custom_templates)
Scene == Get(data, "scene_description", DefaultScene)
Mood == Get(data, "mood_description", DefaultMood)

\* number of variants of the first n sources
RECURSIVE CountVariants(_, _)
CountVariants(sources, n) ==
    IF n = 0 THEN 0
    ELSE CountVariants(sources, n - 1) + Len(VariantsOf(sources[n]))

\* <<i, j>>: variant j of source i, in the input
Positions ==
    UNION {{<<i, j>> : j \in 1..Len(VariantsOf(Sources[i]))} : i \in 1..Len(Sources)}

\* rank of variant j of source i in source-major, variant-minor order
Rank(p) == CountVariants(Sources, p[1] - 1) + p[2]

VariantAt(p) == VariantsOf(Sources[p[1]])[p[2]]
NameAt(p) == Get(Sources[p[1]], "name", DefaultName)
MaterialAt(p) == Get(Sources[p[1]], "material", DefaultMaterial)
PlayMethodAt(p) == Get(VariantAt(p), "play_method", JNull)
InstrumentAt(p) == Get(VariantAt(p), "mapping_to_music_instrument", JNull)
TimbreStrAt(p) == Join(CommaSpace, Get(VariantAt(p), "timbre", JList(<<>>)).val)
RecordAt(p) == generated_prompts[Rank(p)]
PromptAt(p) == RecordAt(p).prompt.val

HasSym(text, sym) == \E k \in 1..Len(text) : text[k] = sym

\* text contains: before, then exactly the symbols of mid, then after
HasBetween(text, before, mid, after) ==
    \E k \in 1..Len(text) :
        /\ text[k] = before
        /\ k + Len(mid) + 1 <= Len(text)
        /\ SubSeq(text, k + 1, k + Len(mid)) = mid
        /\ text[k + Len(mid) + 1] = after

CustomKeyed(p) == PlayMethodAt(p) \in DOMAIN Templates
UsesInstrumentTemplate(text) ==
    HasSym(text, InstrUse) /\ HasSym(text, InstrNotNote) /\ ~HasSym(text, PlainTail)
UsesPlainTemplate(text) ==
    HasSym(text, PlainTail) /\ ~HasSym(text, InstrUse) /\ ~HasSym(text, InstrNotNote)
UsesFixedTemplate(text) ==
    HasSym(text, CoreHead) \/ HasSym(text, InstrUse) \/ HasSym(text, PlainTail)

\* the instrument value is a string (the key is present and not null)
InstrumentIsString(p) == InstrumentAt(p).type = "str"
SpelledNone(p) == InstrumentIsString(p) /\ Lower(InstrumentAt(p).val) = NoneLiteral

Preamble == <<CtxScene>> \o ToStr(Scene) \o <<CtxMood>> \o ToStr(Mood) \o <<CtxEnd>>
Closing == <<ClosingHead>> \o ToStr(Mood) \o <<ClosingTail>>

\* C1: the call returns one record per variant of the input, and the record at
\* position p is the one derived from the p-th variant in source-major,
\* variant-minor order: nothing is filtered, duplicated or reordered.
C1_CountAndOrder ==
    Returned =>
        /\ Len(generated_prompts) = CountVariants(Sources, Len(Sources))
        /\ \A p \in Positions :
             RecordAt(p) = VariantRecord(Scene, Mood, NameAt(p), MaterialAt(p),
                                         VariantAt(p), Templates)

\* two sources of two variants each, the two variants of a source being different
C1_Witness ==
    /\ Returned
    /\ Len(Sources) = 2
    /\ \A i \in 1..2 : Len(VariantsOf(Sources[i])) = 2
    /\ Len(generated_prompts) = 4
    /\ generated_prompts[1] # generated_prompts[2]
    /\ generated_prompts[2] # generated_prompts[3]

\* the rendering of each custom template of the explored inputs, written out
ExpectedCustomCore(p) ==
    IF Templates[PlayMethodAt(p)] = TemplateAll
    THEN ToStr(NameAt(p)) \o <<"|">> \o ToStr(MaterialAt(p)) \o <<"|">>
         \o ToStr(PlayMethodAt(p)) \o <<"|">> \o TimbreStrAt(p) \o <<"|">>
         \o ToStr(InstrumentAt(p))
    ELSE <<"A ">> \o ToStr(PlayMethodAt(p)) \o <<" on ">> \o ToStr(NameAt(p))
         \o <<", again ">> \o ToStr(PlayMethodAt(p))

\* C2: when the variant's play_method is a key of the custom templates, the core
\* prompt is that template with name, material, play_method, timbre_str and
\* instrument substituted, and no fixed template is used, whatever the value
\* of mapping_to_music_instrument.
C2_CustomTemplateRendered ==
    Returned =>
        \A p \in Positions :
            CustomKeyed(p) =>
                /\ PromptAt(p) = Preamble \o ExpectedCustomCore(p) \o Closing
                /\ ~UsesFixedTemplate(PromptAt(p))

\* a custom-keyed variant that names an instrument, rendered by the full template
C2_Witness ==
    /\ Returned
    /\ \E p \in Positions :
         /\ CustomKeyed(p)
         /\ Templates[PlayMethodAt(p)] = TemplateAll
         /\ InstrumentAt(p) = JStr(W_oud)
         /\ "timbre" \in DOMAIN VariantAt(p)

\* C3 as stated: for a variant that is not custom-keyed, the instrument template
\* is selected exactly when mapping_to_music_instrument is a present string
\* that is not "none" in any letter case (the empty string included), and the
\* no-instrument template in every other case.
C3_AsStated ==
    Returned =>
        \A p \in Positions :
            ~CustomKeyed(p) =>
                /\ UsesInstrumentTemplate(PromptAt(p))
                      <=> (InstrumentIsString(p) /\ ~SpelledNone(p))
                /\ UsesPlainTemplate(PromptAt(p))
                      <=> ~(InstrumentIsString(p) /\ ~SpelledNone(p))

\* C3 amended: for a variant that is not custom-keyed, the instrument template
\* is selected exactly when mapping_to_music_instrument is a non-empty string
\* that is not "none" in any letter case; when it is absent, null, the empty
\* string or "none" in any letter case the no-instrument template is selected.
C3_BranchSelection ==
    Returned =>
        \A p \in Positions :
            ~CustomKeyed(p) =>
                /\ UsesInstrumentTemplate(PromptAt(p))
                      <=> (InstrumentIsString(p) /\ InstrumentAt(p).val # <<>>
                           /\ ~SpelledNone(p))
                /\ UsesPlainTemplate(PromptAt(p))
                      <=> ~(InstrumentIsString(p) /\ InstrumentAt(p).val # <<>>
                            /\ ~SpelledNone(p))

\* an empty-string instrument, not custom-keyed, got the no-instrument template
C3_Witness ==
    /\ Returned
    /\ \E p \in Positions :
         /\ ~CustomKeyed(p)
         /\ "mapping_to_music_instrument" \in DOMAIN VariantAt(p)
         /\ InstrumentAt(p) = JStr(<<>>)
         /\ UsesPlainTemplate(PromptAt(p))

\* the variant names an instrument: a non-empty string other than "none"
NamesInstrument(p) ==
    InstrumentIsString(p) /\ InstrumentAt(p).val # <<>> /\ ~SpelledNone(p)
MentionsAsReference(p) ==
    HasBetween(PromptAt(p), InstrUse, InstrumentAt(p).val, InstrReference)

\* C4 as stated: for every variant that names an instrument other than "none",
\* the prompt names that instrument as a timbral reference and contains the
\* sentence forbidding a musical note.
C4_AsStated ==
    Returned =>
        \A p \in Positions :
            NamesInstrument(p) =>
                MentionsAsReference(p) /\ HasSym(PromptAt(p), InstrNotNote)

\* C4 amended: for every variant that is not custom-keyed and whose instrument
\* is a non-empty string other than "none" in any letter case, the prompt names
\* that instrument as a timbral reference and contains the sentence forbidding
\* a musical note.
C4_InstrumentReferenced ==
    Returned =>
        \A p \in Positions :
            (NamesInstrument(p) /\ ~CustomKeyed(p)) =>
                MentionsAsReference(p) /\ HasSym(PromptAt(p), InstrNotNote)

\* a variant naming an instrument, not custom-keyed although templates were given
C4_Witness ==
    /\ Returned
    /\ DOMAIN Templates # {}
    /\ \E p \in Positions :
         /\ ~CustomKeyed(p)
         /\ InstrumentAt(p) = JStr(W_oud)
         /\ MentionsAsReference(p)

\* the prompt of the same variant with mapping_to_music_instrument removed
PromptWithoutInstrument(p) ==
    VariantRecord(Scene, Mood, NameAt(p), MaterialAt(p),
                  [k \in DOMAIN VariantAt(p) \ {"mapping_to_music_instrument"}
                      |-> VariantAt(p)[k]],
                  Templates).prompt.val

\* the prompt has no instrument sentence and is the text the variant would get
\* if it had no instrument at all
InstrumentFree(p) ==
    /\ ~HasSym(PromptAt(p), InstrUse)
    /\ ~HasSym(PromptAt(p), InstrReference)
    /\ PromptAt(p) = PromptWithoutInstrument(p)

\* C5 as stated: for every variant whose instrument is "None" in any letter
\* case, the prompt has no instrument sentence and no instrument value in it.
C5_AsStated ==
    Returned => \A p \in Positions : SpelledNone(p) => InstrumentFree(p)

\* C5 amended: for every variant that is not custom-keyed and whose instrument
\* is "None" in any letter case, the prompt is the no-instrument template: it
\* has no instrument sentence and no instrument value in it.
C5_NoneNotMentioned ==
    Returned =>
        \A p \in Positions :
            (SpelledNone(p) /\ ~CustomKeyed(p)) =>
                InstrumentFree(p) /\ UsesPlainTemplate(PromptAt(p))

\* an upper-case "NONE", not custom-keyed
C5_Witness ==
    /\ Returned
    /\ \E p \in Positions :
         /\ ~CustomKeyed(p)
         /\ InstrumentAt(p) = JStr(<<"N", "O", "N", "E">>)
         /\ UsesPlainTemplate(PromptAt(p))

\* C6: every prompt is the core prompt of its branch between the preamble
\* (scene and mood of the descriptor) and the closing sentence (the mood); the
\* preamble and the closing are the same for every record of a call.
C6_SameWrapper ==
    Returned =>
        \A p \in Positions :
            LET text == PromptAt(p)
                core == SubSeq(text, Len(Preamble) + 1, Len(text) - Len(Closing))
            IN  /\ Len(text) >= Len(Preamble) + Len(Closing)
                /\ SubSeq(text, 1, Len(Preamble)) = Preamble
                /\ SubSeq(text, Len(text) - Len(Closing) + 1, Len(text)) = Closing
                /\ core = CorePrompt(NameAt(p), MaterialAt(p), PlayMethodAt(p),
                                     TimbreStrAt(p), InstrumentAt(p), Templates)
                /\ \A sym \in {CtxScene, CtxMood, CtxEnd, ClosingHead, ClosingTail} :
                     ~HasSym(core, sym)

\* one call whose records come from two branches, scene and mood being different
C6_Witness ==
    /\ Returned
    /\ ToStr(Scene) # ToStr(Mood)
    /\ \E p \in Positions, q \in Positions :
         /\ CustomKeyed(p)
         /\ ~CustomKeyed(q)
         /\ UsesInstrumentTemplate(PromptAt(q))

\* the descriptor's lists are lists: sound_sources, variants and timbre, where
\* present, are not null
ListsAreLists ==
    /\ Get(data, "sound_sources", JList(<<>>)).type = "list"
    /\ \A i \in 1..Len(Sources) :
         /\ Get(Sources[i], "variants", JList(<<>>)).type = "list"
         /\ \A j \in 1..Len(VariantsOf(Sources[i])) :
              Get(VariantsOf(Sources[i])[j], "timbre", JList(<<>>)).type = "list"

AnObject == <<"a", "n", " ", "o", "b", "j", "e", "c", "t">>
UnknownMaterial ==
    <<"u", "n", "k", "n", "o", "w", "n", " ", "m", "a", "t", "e", "r", "i", "a", "l">>

\* C7: with every field of a source or variant possibly absent, the call does
\* not raise and keeps every variant; an absent name is "an object", an absent
\* material "unknown material", an absent timbre the empty list, and an absent
\* play_method is None in the record and the text "None" in the prompt.
C7_AbsentFields ==
    /\ ListsAreLists => pc # "raised"
    /\ Returned =>
        /\ Len(generated_prompts) = CountVariants(Sources, Len(Sources))
        /\ \A p \in Positions :
             /\ "name" \notin DOMAIN Sources[p[1]] =>
                  /\ RecordAt(p).source_name = JStr(AnObject)
                  /\ ~CustomKeyed(p) =>
                       HasBetween(PromptAt(p), CoreHead, AnObject, CoreMadeOf)
             /\ ("material" \notin DOMAIN Sources[p[1]] /\ ~CustomKeyed(p)) =>
                  HasBetween(PromptAt(p), CoreMadeOf, UnknownMaterial, CoreAction)
             /\ ("timbre" \notin DOMAIN VariantAt(p) /\ ~CustomKeyed(p)) =>
                  HasBetween(PromptAt(p), CoreCreating, <<>>, CoreTimbre)
             /\ "play_method" \notin DOMAIN VariantAt(p) =>
                  /\ RecordAt(p).play_method = JNull
                  /\ HasBetween(PromptAt(p), CoreAction, <<"N", "o", "n", "e">>,
                                CoreCreating)

\* a variant without any field, in a source without name and material
C7_Witness ==
    /\ Returned
    /\ \E p \in Positions :
         /\ DOMAIN VariantAt(p) = {}
         /\ DOMAIN Sources[p[1]] = {"variants"}

required_fields == <<"scene_description", "mood_description", "sound_sources">>
source_required == <<"name", "material", "variants">>
variant_required == <<"play_method", "timbre", "mapping_to_music_instrument">>

Digits == <<"0", "1", "2", "3", "4", "5", "6", "7", "8", "9">>

\* str(n) of a non-negative integer, as inserted by an f-string
RECURSIVE Dec(_)
Dec(n) == IF n < 10 THEN <<Digits[n + 1]>> ELSE Dec(n \div 10) \o <<Digits[(n % 10) + 1]>>

\* mutant: the scan of a field list stops at the first missing field
MissingFieldIssuesFirstOnly(d, fields, prefix) ==
    LET missing == SelectSeq(fields, LAMBDA f : f \notin DOMAIN d)
    IN  IF missing = <<>> THEN <<>> ELSE <<JStr(prefix \o <<missing[1]>>)>>

\* for field in fields: if field not in d: issues.append(prefix + field)
MissingFieldIssues(d, fields, prefix) ==
    LET missing == SelectSeq(fields, LAMBDA f : f \notin DOMAIN d)
    IN  [k \in 1..Len(missing) |-> JStr(prefix \o <<missing[k]>>)]

\* for j, variant in enumerate(source['variants']), from index j on
RECURSIVE VariantIssuesLoop(_, _, _)
VariantIssuesLoop(i, variants, j) ==
    IF j >= Len(variants) THEN <<>>
    ELSE MissingFieldIssues(variants[j + 1], variant_required,
                            <<"sound_sources[">> \o Dec(i) \o <<"].variants[">>
                            \o Dec(j) \o <<"] missing field: ">>)
         \o VariantIssuesLoop(i, variants, j + 1)

\* for i, source in enumerate(sources), from index i on
RECURSIVE SourceIssuesLoop(_, _)
SourceIssuesLoop(sources, i) ==
    IF i >= Len(sources) THEN <<>>
    ELSE MissingFieldIssues(sources[i + 1], source_required,
                            <<"sound_sources[">> \o Dec(i) \o <<"] missing field: ">>)
         \o (IF "variants" \in DOMAIN sources[i + 1]
             THEN VariantIssuesLoop(i, sources[i + 1]["variants"].val, 0)
             ELSE <<>>)
         \o SourceIssuesLoop(sources, i + 1)

ShouldBeList == JStr(<<"sound_sources should be a list">>)

\* the call raises: the variants of a source are enumerated and are not a list
validate_json_structure_raises(d) ==
    /\ "sound_sources" \in DOMAIN d
    /\ d["sound_sources"].type = "list"
    /\ \E i \in 1..Len(d["sound_sources"].val) :
         /\ "variants" \in DOMAIN d["sound_sources"].val[i]
         /\ d["sound_sources"].val[i]["variants"].type # "list"

validate_json_structure(d) ==
    MissingFieldIssues(d, required_fields, <<"Missing field: ">>)
    \o (IF "sound_sources" \in DOMAIN d
        THEN IF d["sound_sources"].type # "list"
             THEN <<ShouldBeList>>
             ELSE SourceIssuesLoop(d["sound_sources"].val, 0)
        ELSE <<>>)

(***************************************************************************)
(* Inputs of validate_json_structure explored by SpecValidate.             *)
(***************************************************************************)
\* the dict of f restricted to the keys in keys
Restrict(f, keys) == [k \in keys |-> f[k]]

FullVariant ==
    [play_method |-> JStr(W_rustle), timbre |-> JList(<<W_soft>>),
     mapping_to_music_instrument |-> JStr(W_oud)]

\* one source with at most one variant, every key of each level present or absent
RichValidatorInputs ==
    {MkDict([scene_description |-> sc, mood_description |-> mo,
             sound_sources |-> JList(<<MkDict([name |-> n, material |-> n,
                                               variants |-> vs])>>)]) :
        sc \in {AbsentKey, JStr(W_forest)}, mo \in {AbsentKey, JStr(W_calm)},
        n \in {AbsentKey, JStr(W_leaf)},
        vs \in {AbsentKey, JNull, JList(<<>>)}
               \cup {JList(<<Restrict(FullVariant, K)>>) : K \in SUBSET DOMAIN FullVariant}}

ValidatorPoolVariants == {FullVariant, EmptyDict}

ValidatorSources ==
    {MkDict([name |-> JStr(W_leaf), material |-> JStr(W_organic), variants |-> vs]) :
        vs \in {AbsentKey}
               \cup {JList(s) : s \in SeqsUpTo(ValidatorPoolVariants, MaxVariants)}}

\* up to MaxSources sources of up to MaxVariants variants each
StructValidatorInputs ==
    {MkDict([scene_description |-> JStr(W_forest), mood_description |-> mo,
             sound_sources |-> ss]) :
        mo \in {AbsentKey, JStr(W_calm)},
        ss \in {AbsentKey, JNull, JStr(W_leaf)}
               \cup {JList(s) : s \in SeqsUpTo(ValidatorSources, MaxSources)}}

ValidatorInputs == RichValidatorInputs \cup StructValidatorInputs

(***************************************************************************)
(* SpecValidate: one call of validate_json_structure(json_data).           *)
(***************************************************************************)
InitValidate ==
    /\ pc = "call"
    /\ json_data \in ValidatorInputs
    /\ issues = <<>>
    /\ PromptsIdle
    /\ AudioIdle
    /\ RoundTripIdle
    /\ Stage1Idle
    /\ PipelineIdle

ValidateReturns ==
    /\ pc = "call"
    /\ ~validate_json_structure_raises(json_data)
    /\ issues' = validate_json_structure(json_data)
    /\ pc' = "returned"
    /\ UNCHANGED <<json_data, beside_validator_vars>>

ValidateRaises ==
    /\ pc = "call"
    /\ validate_json_structure_raises(json_data)
    /\ pc' = "raised"
    /\ UNCHANGED <<validator_vars, beside_validator_vars>>

NextValidate == ValidateReturns \/ ValidateRaises

SpecValidate == InitValidate /\ [][NextValidate]_vars

(***************************************************************************)
(* Properties of validate_json_structure, checked under SpecValidate.      *)
(***************************************************************************)
SoundSourcesIsList ==
    "sound_sources" \in DOMAIN json_data /\ json_data["sound_sources"].type = "list"
SoundSourcesNotList ==
    "sound_sources" \in DOMAIN json_data /\ json_data["sound_sources"].type # "list"
ValidatedSources == IF SoundSourcesIsList THEN json_data["sound_sources"].val ELSE <<>>

\* a missing required key: <<i, j, k>> is field k of variant j of source i
\* (indices from 0); j = -1 for a key of the source itself and i = -1 for a
\* top-level key
MissingPaths ==
    {<<-1, -1, k>> : k \in {x \in 1..3 : required_fields[x] \notin DOMAIN json_data}}
    \cup UNION {{<<i, -1, k>> :
                    k \in {x \in 1..3 :
                             source_required[x] \notin DOMAIN ValidatedSources[i + 1]}} :
                i \in 0..(Len(ValidatedSources) - 1)}
    \cup UNION {UNION {{<<i, j, k>> :
                          k \in {x \in 1..3 :
                                   variant_required[x] \notin
                                       DOMAIN ValidatedSources[i + 1]["variants"].val[j + 1]}} :
                       j \in 0..(Len(ValidatedSources[i + 1]["variants"].val) - 1)} :
                i \in {x \in 0..(Len(ValidatedSources) - 1) :
                         "variants" \in DOMAIN ValidatedSources[x + 1]}}

\* traversal order: top-level keys, then each source's keys and then its variants'
Before(p, q) ==
    \/ p[1] < q[1]
    \/ p[1] = q[1] /\ p[2] < q[2]
    \/ p[1] = q[1] /\ p[2] = q[2] /\ p[3] < q[3]

\* the k-th element of the set M of missing keys in traversal order
KthMissing(M, k) ==
    CHOOSE p \in M : Cardinality({q \in M : Before(q, p)}) = k - 1

IndexText(i) == <<"0", "1", "2", "3", "4", "5", "6", "7", "8", "9">>[i + 1]

\* the issue naming a missing key by its index-qualified path
IssueOf(p) ==
    IF p[1] = -1
    THEN JStr(<<"Missing field: ", required_fields[p[3]]>>)
    ELSE IF p[2] = -1
    THEN JStr(<<"sound_sources[", IndexText(p[1]), "] missing field: ",
                source_required[p[3]]>>)
    ELSE JStr(<<"sound_sources[", IndexText(p[1]), "].variants[", IndexText(p[2]),
                "] missing field: ", variant_required[p[3]]>>)

\* C8 as stated: the returned list is exactly the sequence of issues of the
\* missing required keys in traversal order, one per key, and it is empty
\* exactly when no key is missing and sound_sources is a list.
C8_AsStated ==
    Returned =>
        LET M == MissingPaths
        IN  /\ Len(issues) = Cardinality(M)
            /\ \A k \in 1..Cardinality(M) : issues[k] = IssueOf(KthMissing(M, k))
            /\ issues = <<>> <=> (M = {} /\ SoundSourcesIsList)

\* C8 amended: the returned list is the sequence of issues of the missing
\* required keys in traversal order, one per key, followed by the one issue
\* "sound_sources should be a list" when sound_sources is present and not a
\* list; it is empty exactly when no key is missing and sound_sources is a
\* list; a descriptor missing only mood_description yields exactly the one
\* issue naming it.
C8_AllIssuesCollected ==
    Returned =>
        LET M == MissingPaths
            n == Cardinality(M)
        IN  /\ Len(issues) = n + (IF SoundSourcesNotList THEN 1 ELSE 0)
            /\ \A k \in 1..n : issues[k] = IssueOf(KthMissing(M, k))
            /\ SoundSourcesNotList => issues[n + 1] = ShouldBeList
            /\ issues = <<>> <=> (M = {} /\ SoundSourcesIsList)
            /\ M = {<<-1, -1, 2>>} /\ SoundSourcesIsList =>
                 issues = <<JStr(<<"Missing field: ", "mood_description">>)>>

\* keys are missing at the top level, in the second source and in a second
\* variant, several of them in one variant
C8_Witness ==
    /\ Returned
    /\ \E p \in MissingPaths : p[1] = -1
    /\ \E p \in MissingPaths : p[1] = 1 /\ p[2] = -1
    /\ \E p \in MissingPaths, q \in MissingPaths :
         p[2] = 1 /\ q[1] = p[1] /\ q[2] = 1 /\ q[3] # p[3]
    /\ Len(issues) >= 5

\* sound_sources is present and not a list
C8_NotListWitness ==
    /\ Returned
    /\ SoundSourcesNotList
    /\ issues = <<ShouldBeList>>

(***************************************************************************)
(* utils.sanitize_filename                                                 *)
(***************************************************************************)
max_length == 120
invalid_chars == {"<", ">", ":", "\"", "/", "\\", "|", "?", "*"}
Whitespace == {" ", "\t", "\n", "\r", "\f"}

\* for char in invalid_chars: text = text.replace(char, "_")
ReplaceInvalid(text) ==
    [i \in 1..Len(text) |-> IF text[i] \in invalid_chars THEN "_" ELSE text[i]]

\* text.split(): the maximal runs of non-whitespace symbols; cur is the run
\* being read
RECURSIVE SplitWords(_, _)
SplitWords(text, cur) ==
    IF text = <<>> THEN (IF cur = <<>> THEN <<>> ELSE <<cur>>)
    ELSE IF Head(text) \in Whitespace
    THEN (IF cur = <<>> THEN <<>> ELSE <<cur>>) \o SplitWords(Tail(text), <<>>)
    ELSE SplitWords(Tail(text), Append(cur, Head(text)))

\* text[:n]
Prefix(text, n) == SubSeq(text, 1, IF Len(text) < n THEN Len(text) ELSE n)

sanitize_filename(text) ==
    Prefix(Join(<<"_">>, SplitWords(ReplaceInvalid(text), <<>>)), max_length)

(***************************************************************************)
(* Paths: os.path.basename, os.path.dirname, os.path.splitext.             *)
(***************************************************************************)
\* the last position of character c in text, 0 when it does not occur
LastIndexOf(text, c) ==
    LET at == {i \in 1..Len(text) : text[i] = c}
    IN  IF at = {} THEN 0 ELSE CHOOSE i \in at : \A j \in at : j <= i

\* os.path.basename
basename(path) == SubSeq(path, LastIndexOf(path, "/") + 1, Len(path))

\* os.path.splitext(name)[0]: the extension starts at the last dot, unless
\* only dots come before it
splitext_root(name) ==
    LET dot == LastIndexOf(name, ".")
    IN  IF dot > 0 /\ \E i \in 1..(dot - 1) : name[i] # "."
        THEN SubSeq(name, 1, dot - 1)
        ELSE name

\* base_name = os.path.splitext(os.path.basename(image_path))[0]
base_name(image_path) == splitext_root(basename(image_path))

\* os.path.join(output_dir, base_name, f"{base_name}_sound_source.json")
DescriptorPath(base) == [folder |-> base, stem |-> base]

\* os.path.dirname
dirname(path) ==
    IF LastIndexOf(path, "/") = 0 THEN <<>>
    ELSE SubSeq(path, 1, LastIndexOf(path, "/") - 1)

\* image files: two that exist and one that does not
ImageA == <<"d", "a", "t", "a", "/", "1", "0", "1", ".", "j", "p", "g">>
ImageB == <<"d", "a", "t", "a", "/", "1", "0", "2", ".", "p", "n", "g">>
ImageC == <<"d", "a", "t", "a", "/", "1", "0", "3", ".", "j", "p", "g">>
ExistingImages == {ImageA, ImageB}

(***************************************************************************)
(* audioldm2.generate_audio_for_sound_sources.  single is None (batch mode) *)
(* or the path of an image.                                                *)
(* The directory writes and the write of prompts.json are taken to succeed;*)
(* loading, composing, synthesis and the save of a clip may each fail.     *)
(***************************************************************************)
\* f"{idx:02d}"
Pad2(n) == IF n < 10 THEN <<"0">> \o Dec(n) ELSE Dec(n)

_objects_to_sound_sources_if_needed(d) ==
    IF "sound_sources" \in DOMAIN d THEN d
    ELSE IF "objects" \in DOMAIN d /\ d["objects"].type = "list"
    THEN [k \in DOMAIN d \cup {"sound_sources"} |->
            IF k = "sound_sources" THEN d["objects"] ELSE d[k]]
    ELSE d

\* code points of the characters that occur in the explored paths; the
\* file-name suffix is one symbol and starts with "_"
CharOrder ==
    <<"/", "0", "1", "2", "3", "4", "5", "6", "7", "8", "9", "_">>
SoundSourceSuffix == "_sound_source.json"
Ord(c) ==
    IF c = SoundSourceSuffix THEN Len(CharOrder)
    ELSE CHOOSE i \in 1..Len(CharOrder) : CharOrder[i] = c

\* a < b for two str values (lexicographic order of Python)
RECURSIVE StrLess(_, _)
StrLess(a, b) ==
    IF b = <<>> THEN FALSE
    ELSE IF a = <<>> THEN TRUE
    ELSE IF Ord(Head(a)) # Ord(Head(b)) THEN Ord(Head(a)) < Ord(Head(b))
    ELSE StrLess(Tail(a), Tail(b))

\* os.path.join(image_folder_path, "<stem>_sound_source.json"), below sound_source_dir
PathString(path) == path.folder \o <<"/">> \o path.stem \o <<SoundSourceSuffix>>

\* sorted(json_files)
RECURSIVE SortedPaths(_)
SortedPaths(paths) ==
    IF paths = {} THEN <<>>
    ELSE LET first == CHOOSE x \in paths :
                        \A y \in paths \ {x} : StrLess(PathString(x), PathString(y))
         IN  <<first>> \o SortedPaths(paths \ {first})

\* base: os.path.basename(os.path.dirname(json_path)), the image folder
BaseOf(path) == path.folder

\* out_name of the clip of prompts item `item` at position i
OutName(item, i) ==
    Pad2(i) \o <<"_">> \o sanitize_filename(item.source_name.val)
    \o <<"_">> \o sanitize_filename(ToStr(item.play_method)) \o <<".wav">>

\* what _load_json finds at a path: a descriptor file, or a file that is not
\* JSON (an image)
ContentOf(path) ==
    IF path \in DOMAIN sound_source_fs THEN sound_source_fs[path]
    ELSE [valid |-> FALSE, data |-> EmptyDict]

CurrentPath == json_files[file_index]
CurrentContent == ContentOf(CurrentPath)
CurrentData == _objects_to_sound_sources_if_needed(CurrentContent.data)

\* one log entry; generator is the state of the random generator at that point
Event(op, f, i, result) ==
    [op |-> op, file |-> f, idx |-> i, result |-> result, generator |-> generator]

\* the outer loop goes on with the next file
NextFile ==
    /\ file_index' = file_index + 1
    /\ pc' = "file"

\* the inner loop goes on with the next item, or ends
NextClip ==
    IF idx < Len(prompts)
    THEN idx' = idx + 1 /\ pc' = "clip"
    ELSE idx' = idx /\ pc' = "dump"

\* torch.Generator(...).manual_seed(seed): no draw was taken yet
SeededState == "seeded"

\* the state of the generator once a pipeline call drew its noise from it
DrawnFrom == "drawn_from"

\* ensure_dir(result_dir); _load_pipeline(...); the generator is created and
\* seeded
LoadPipeline ==
    /\ pc = "start"
    /\ generator' = SeededState
    /\ pc' = "find"
    /\ UNCHANGED <<beside_audio_vars, single, sound_source_fs, json_files, file_index,
                   prompts, idx, total_audio_generated, wav_files, prompt_files,
                   out_dirs, events>>

\* _load_pipeline raises: the exception leaves the function
LoadPipelineFails ==
    /\ pc = "start"
    /\ pc' = "raised"
    /\ UNCHANGED <<beside_audio_vars, audio_vars>>

\* mutant: the descriptor of the image is not looked up
SingleCandidateIsSingle ==
    [folder |-> basename(dirname(single.val)), stem |-> basename(single.val)]

\* single mode (lines 91-100): the descriptor of the image when it exists,
\* else the path given; an image path is held as its folder and file name
SingleCandidate ==
    LET json_pattern == DescriptorPath(base_name(single.val))
    IN  IF json_pattern \in DOMAIN sound_source_fs THEN json_pattern
        ELSE [folder |-> basename(dirname(single.val)), stem |-> basename(single.val)]

\* os.path.exists(candidate)
CandidateExists ==
    \/ SingleCandidate \in DOMAIN sound_source_fs
    \/ single.val \in ExistingImages

\* json_files: the one candidate in single mode, else the descriptor files of
\* every image folder, sorted
FoundJsonFiles ==
    IF Truthy(single)
    THEN IF CandidateExists THEN <<SingleCandidate>> ELSE <<>>
    ELSE SortedPaths(DOMAIN sound_source_fs)

\* os.listdir and glob in an order that is not the sorted one
RECURSIVE ListingOrder(_)
ListingOrder(paths) ==
    IF paths = {} THEN <<>>
    ELSE LET last == CHOOSE x \in paths :
                        \A y \in paths \ {x} : StrLess(PathString(y), PathString(x))
         IN  <<last>> \o ListingOrder(paths \ {last})

\* mutant: json_files is not sorted
FindJsonFilesUnsorted ==
    /\ pc = "find"
    /\ FoundJsonFiles # <<>>
    /\ json_files' = IF Truthy(single) THEN FoundJsonFiles
                     ELSE ListingOrder(DOMAIN sound_source_fs)
    /\ file_index' = 1
    /\ total_audio_generated' = 0
    /\ pc' = "file"
    /\ UNCHANGED <<beside_audio_vars, single, sound_source_fs, prompts, idx,
                   wav_files, prompt_files, out_dirs, generator, events>>

FindJsonFiles ==
    /\ pc = "find"
    /\ FoundJsonFiles # <<>>
    /\ json_files' = FoundJsonFiles
    /\ file_index' = 1
    /\ total_audio_generated' = 0
    /\ pc' = "file"
    /\ UNCHANGED <<beside_audio_vars, single, sound_source_fs, prompts, idx,
                   wav_files, prompt_files, out_dirs, generator, events>>

\* if not json_files: return
NoJsonFiles ==
    /\ pc = "find"
    /\ FoundJsonFiles = <<>>
    /\ json_files' = <<>>
    /\ pc' = "done"
    /\ UNCHANGED <<beside_audio_vars, single, sound_source_fs, file_index, prompts,
                   idx, total_audio_generated, wav_files, prompt_files, out_dirs,
                   events,
                   generator>>

\* _load_json raises; the outer except logs it
LoadFails ==
    /\ pc = "file"
    /\ file_index <= Len(json_files)
    /\ ~CurrentContent.valid
    /\ events' = Append(events, Event("file", file_index, 0, "load_failed"))
    /\ NextFile
    /\ UNCHANGED <<beside_audio_vars, single, sound_source_fs, json_files, prompts,
                   idx, total_audio_generated, wav_files, prompt_files, out_dirs,
                   generator>>

\* mutant: no outer try/except, the exception of generate_prompts ends the batch
ComposeFailsAbortsBatch ==
    /\ pc = "file"
    /\ file_index <= Len(json_files)
    /\ CurrentContent.valid
    /\ generate_prompts_raises(CurrentData)
    /\ events' = Append(events, Event("file", file_index, 0, "compose_failed"))
    /\ pc' = "raised"
    /\ UNCHANGED <<beside_audio_vars, single, sound_source_fs, json_files, file_index,
                   prompts, idx, total_audio_generated, wav_files, prompt_files,
                   out_dirs,
                   generator>>

\* generate_prompts raises; the outer except logs it
ComposeFails ==
    /\ pc = "file"
    /\ file_index <= Len(json_files)
    /\ CurrentContent.valid
    /\ generate_prompts_raises(CurrentData)
    /\ events' = Append(events, Event("file", file_index, 0, "compose_failed"))
    /\ NextFile
    /\ UNCHANGED <<beside_audio_vars, single, sound_source_fs, json_files, prompts,
                   idx, total_audio_generated, wav_files, prompt_files, out_dirs,
                   generator>>

NoPromptsMakesDir ==
    /\ pc = "file"
    /\ file_index <= Len(json_files)
    /\ CurrentContent.valid
    /\ ~generate_prompts_raises(CurrentData)
    /\ generate_prompts(CurrentData, JNull) = <<>>
    /\ prompts' = <<>>
    /\ out_dirs' = out_dirs \cup {BaseOf(CurrentPath)}
    /\ events' = Append(events, Event("file", file_index, 0, "no_prompts"))
    /\ NextFile
    /\ UNCHANGED <<beside_audio_vars, single, sound_source_fs, json_files, idx,
                   total_audio_generated, wav_files, prompt_files, generator>>

\* if not prompts: continue
NoPrompts ==
    /\ pc = "file"
    /\ file_index <= Len(json_files)
    /\ CurrentContent.valid
    /\ ~generate_prompts_raises(CurrentData)
    /\ generate_prompts(CurrentData, JNull) = <<>>
    /\ prompts' = <<>>
    /\ events' = Append(events, Event("file", file_index, 0, "no_prompts"))
    /\ NextFile
    /\ UNCHANGED <<beside_audio_vars, single, sound_source_fs, json_files, idx,
                   total_audio_generated, wav_files, prompt_files, out_dirs,
                   generator>>

\* the prompts are composed and ensure_dir(image_out_dir) is done
BeginClips ==
    /\ pc = "file"
    /\ file_index <= Len(json_files)
    /\ CurrentContent.valid
    /\ ~generate_prompts_raises(CurrentData)
    /\ generate_prompts(CurrentData, JNull) # <<>>
    /\ prompts' = generate_prompts(CurrentData, JNull)
    /\ out_dirs' = out_dirs \cup {BaseOf(CurrentPath)}
    /\ idx' = 1
    /\ events' = Append(events, Event("file", file_index, 0, "composed"))
    /\ pc' = "clip"
    /\ UNCHANGED <<beside_audio_vars, single, sound_source_fs, json_files, file_index,
                   total_audio_generated, wav_files, prompt_files,
                   generator>>

\* mutant: the clip is numbered by the count of clips saved so far
ClipSavedRenumbered ==
    /\ pc = "clip"
    /\ LET saved == Cardinality({k \in 1..Len(events) :
                        /\ events[k].op = "clip"
                        /\ events[k].file = file_index
                        /\ events[k].result = "saved"})
           clip == [dir |-> BaseOf(CurrentPath),
                    name |-> OutName(prompts[idx], saved + 1)]
       IN  wav_files' =
               {w \in wav_files : ~(w.dir = clip.dir /\ w.name = clip.name)}
               \cup {[dir |-> clip.dir, name |-> clip.name, by |-> file_index]}
    /\ total_audio_generated' = total_audio_generated + 1
    /\ generator' = DrawnFrom
    /\ events' = Append(events, Event("clip", file_index, idx, "saved"))
    /\ NextClip
    /\ UNCHANGED <<beside_audio_vars, single, sound_source_fs, json_files, file_index,
                   prompts, prompt_files, out_dirs>>

\* the pipeline call and _save_wav succeed: the clip is written and counted
ClipSaved ==
    /\ pc = "clip"
    /\ LET clip == [dir |-> BaseOf(CurrentPath), name |-> OutName(prompts[idx], idx)]
       IN  wav_files' =
               {w \in wav_files : ~(w.dir = clip.dir /\ w.name = clip.name)}
               \cup {[dir |-> clip.dir, name |-> clip.name, by |-> file_index]}
    /\ total_audio_generated' = total_audio_generated + 1
    /\ generator' = DrawnFrom
    /\ events' = Append(events, Event("clip", file_index, idx, "saved"))
    /\ NextClip
    /\ UNCHANGED <<beside_audio_vars, single, sound_source_fs, json_files, file_index,
                   prompts, prompt_files, out_dirs>>

\* mutant: no inner try/except, the failure is caught by the outer except
SynthesisFailsSkipsFile ==
    /\ pc = "clip"
    /\ \E drawn \in BOOLEAN : generator' = IF drawn THEN DrawnFrom ELSE generator
    /\ events' = Append(events, Event("clip", file_index, idx, "synthesis_failed"))
    /\ NextFile
    /\ UNCHANGED <<beside_audio_vars, single, sound_source_fs, json_files, prompts,
                   idx, total_audio_generated, wav_files, prompt_files, out_dirs>>

\* the pipeline call raises, before or after it drew the initial noise from
\* the generator; the inner except logs it
SynthesisFails ==
    /\ pc = "clip"
    /\ \E drawn \in BOOLEAN : generator' = IF drawn THEN DrawnFrom ELSE generator
    /\ events' = Append(events, Event("clip", file_index, idx, "synthesis_failed"))
    /\ NextClip
    /\ UNCHANGED <<beside_audio_vars, single, sound_source_fs, json_files, file_index,
                   prompts, total_audio_generated, wav_files, prompt_files, out_dirs>>

\* the pipeline call returns and _save_wav raises; the inner except logs it
SaveFails ==
    /\ pc = "clip"
    /\ generator' = DrawnFrom
    /\ events' = Append(events, Event("clip", file_index, idx, "save_failed"))
    /\ NextClip
    /\ UNCHANGED <<beside_audio_vars, single, sound_source_fs, json_files, file_index,
                   prompts, total_audio_generated, wav_files, prompt_files, out_dirs>>

\* json.dump(prompts) to <image_out_dir>/prompts.json
DumpPrompts ==
    /\ pc = "dump"
    /\ prompt_files' =
           {f \in prompt_files : f.dir # BaseOf(CurrentPath)}
           \cup {[dir |-> BaseOf(CurrentPath), content |-> prompts, by |-> file_index]}
    /\ events' = Append(events, Event("dump", file_index, 0, "written"))
    /\ NextFile
    /\ UNCHANGED <<beside_audio_vars, single, sound_source_fs, json_files, prompts,
                   idx, total_audio_generated, wav_files, out_dirs,
                   generator>>

\* the loop over json_files is over: the summary is printed
Finish ==
    /\ pc = "file"
    /\ file_index > Len(json_files)
    /\ pc' = "done"
    /\ UNCHANGED <<beside_audio_vars, audio_vars>>

(***************************************************************************)
(* Descriptor files explored by Spec.                                      *)
(***************************************************************************)
W_101 == <<"1", "0", "1">>
W_102 == <<"1", "0", "2">>

\* two descriptor files in one image folder, and one in another folder
AllPaths ==
    {[folder |-> W_101, stem |-> W_101], [folder |-> W_101, stem |-> W_102],
     [folder |-> W_102, stem |-> W_102]}

PlainVariant ==
    [play_method |-> JStr(W_rustle), timbre |-> JList(<<W_soft, W_airy>>),
     mapping_to_music_instrument |-> JStr(<<"N", "o", "n", "e">>)]

DescriptorOf(sources) ==
    [scene_description |-> JStr(W_forest), mood_description |-> JStr(W_calm),
     sound_sources |-> JList(sources)]

\* no variant, MaxVariants variants (every second one without any field), a
\* null timbre, and one variant under the older "objects" key
AudioDescriptors ==
    {DescriptorOf(<<>>),
     DescriptorOf(<<[material |-> JStr(W_organic),
                     variants |-> JList([k \in 1..MaxVariants |->
                                           IF k % 2 = 1 THEN FullVariant
                                           ELSE EmptyDict])]>>),
     DescriptorOf(<<[name |-> JStr(W_leaf),
                     variants |-> JList(<<[timbre |-> JNull]>>)]>>),
     [objects |-> JList(<<[name |-> JStr(W_leaf), material |-> JStr(W_organic),
                           variants |-> JList(<<PlainVariant>>)]>>)]}

\* a file that is not valid JSON, or one that holds a descriptor
FileContents ==
    {[valid |-> FALSE, data |-> EmptyDict]}
    \cup {[valid |-> TRUE, data |-> d] : d \in AudioDescriptors}

\* the number of clips the descriptor files fs ask for
PromptCount(content) ==
    IF ~content.valid THEN 0
    ELSE LET d == _objects_to_sound_sources_if_needed(content.data)
         IN  IF generate_prompts_raises(d) THEN 0 ELSE Len(generate_prompts(d, JNull))

RECURSIVE TotalPrompts(_, _)
TotalPrompts(fs, paths) ==
    IF paths = {} THEN 0
    ELSE LET q == CHOOSE x \in paths : TRUE
         IN  PromptCount(fs[q]) + TotalPrompts(fs, paths \ {q})

(***************************************************************************)
(* Spec: one run of generate_audio_for_sound_sources over at most MaxFiles *)
(* descriptor files that ask for at most MaxClips clips together.          *)
(***************************************************************************)
Init ==
    /\ pc = "start"
    /\ single = JNull
    /\ \E P \in SUBSET AllPaths :
         /\ Cardinality(P) <= MaxFiles
         /\ sound_source_fs \in [P -> FileContents]
         /\ TotalPrompts(sound_source_fs, P) <= MaxClips
    /\ json_files = <<>>
    /\ file_index = 0
    /\ prompts = <<>>
    /\ idx = 0
    /\ total_audio_generated = 0
    /\ wav_files = {}
    /\ prompt_files = {}
    /\ out_dirs = {}
    /\ generator = SeededState
    /\ events = <<>>
    /\ PromptsIdle
    /\ ValidatorIdle
    /\ RoundTripIdle
    /\ Stage1Idle
    /\ PipelineIdle

Next ==
    \/ LoadPipeline
    \/ LoadPipelineFails
    \/ FindJsonFiles
    \/ NoJsonFiles
    \/ LoadFails
    \/ ComposeFails
    \/ NoPrompts
    \/ BeginClips
    \/ ClipSaved
    \/ SynthesisFails
    \/ SaveFails
    \/ DumpPrompts
    \/ Finish

Spec == Init /\ [][Next]_vars

(***************************************************************************)
(* Properties of the audio stage, checked under Spec.                      *)
(***************************************************************************)
Done == pc = "done"
Files == 1..Len(json_files)
ContentAt(f) == ContentOf(json_files[f])
DataAt(f) == _objects_to_sound_sources_if_needed(ContentAt(f).data)

\* loading file f or composing its prompts fails
FailsToCompose(f) == ~ContentAt(f).valid \/ generate_prompts_raises(DataAt(f))

\* the prompts composed for file f
PromptsOfFile(f) ==
    IF FailsToCompose(f) THEN <<>> ELSE generate_prompts(DataAt(f), JNull)

\* positions in events of the attempts of one step
EventsOf(op, f, i) ==
    {k \in 1..Len(events) :
        events[k].op = op /\ events[k].file = f /\ events[k].idx = i}

ClipFailed(k) ==
    events[k].op = "clip" /\ events[k].result \in {"synthesis_failed", "save_failed"}
ClipWasSaved(k) == events[k].op = "clip" /\ events[k].result = "saved"

\* C9: when the run is over, every descriptor file was taken up once; every
\* variant of every file with prompts was attempted exactly once, whatever
\* failed before it, and the file's prompts.json was written; the clip counter
\* is the number of variants that were synthesized and saved.
C9_VariantFailureIsolated ==
    Done =>
        /\ \A f \in Files : Cardinality(EventsOf("file", f, 0)) = 1
        /\ \A f \in Files :
             PromptsOfFile(f) # <<>> =>
                /\ \A i \in 1..Len(PromptsOfFile(f)) :
                     Cardinality(EventsOf("clip", f, i)) = 1
                /\ Cardinality(EventsOf("dump", f, 0)) = 1
                /\ \E pf \in prompt_files : pf.dir = BaseOf(json_files[f])
        /\ total_audio_generated =
              Cardinality({k \in 1..Len(events) : ClipWasSaved(k)})

\* a variant failed, the next variant of the same file was saved, the file's
\* prompts.json was written and a later file got a clip as well
C9_Witness ==
    /\ Done
    /\ \E k \in 1..Len(events) :
         /\ ClipFailed(k)
         /\ \E m \in (k + 1)..Len(events) :
              /\ ClipWasSaved(m)
              /\ events[m].file = events[k].file
              /\ events[m].idx = events[k].idx + 1
         /\ EventsOf("dump", events[k].file, 0) # {}
         /\ \E m \in (k + 1)..Len(events) :
              ClipWasSaved(m) /\ events[m].file > events[k].file

\* C10: a file whose load or whose prompt composition fails gets no clip and
\* no prompts.json; the failure does not leave the loop: when the run is over
\* every file was taken up and every file with prompts got its prompts.json.
C10_FileFailureIsolated ==
    /\ \A f \in Files :
         FailsToCompose(f) =>
            /\ \A k \in 1..Len(events) :
                 events[k].file = f => events[k].op = "file"
            /\ \A w \in wav_files : w.by # f
            /\ \A pf \in prompt_files : pf.by # f
    /\ file_index >= 1 => pc # "raised"
    /\ Done =>
         /\ \A f \in Files : Cardinality(EventsOf("file", f, 0)) = 1
         /\ \A f \in Files :
              PromptsOfFile(f) # <<>> => EventsOf("dump", f, 0) # {}

\* the first file failed in generate_prompts, the second one got a clip and
\* its prompts.json
C10_Witness ==
    /\ Done
    /\ Len(json_files) >= 2
    /\ ContentAt(1).valid
    /\ generate_prompts_raises(DataAt(1))
    /\ \E k \in 1..Len(events) : ClipWasSaved(k) /\ events[k].file = 2
    /\ \E pf \in prompt_files : pf.by = 2

\* the first file is not valid JSON, the second one got a clip
C10_LoadWitness ==
    /\ Done
    /\ Len(json_files) >= 2
    /\ ~ContentAt(1).valid
    /\ \E k \in 1..Len(events) : ClipWasSaved(k) /\ events[k].file = 2

\* the clip name the claim gives to the record at position i
NumberedName(rec, i) ==
    Pad2(i) \o <<"_">> \o sanitize_filename(rec.source_name.val)
    \o <<"_">> \o sanitize_filename(ToStr(rec.play_method)) \o <<".wav">>

\* C12: the clip saved for the record at position i of a descriptor's prompt
\* list carries the number i (two digits), the sanitized source name and the
\* sanitized play method; the prompts.json a descriptor writes is its complete
\* prompt list in order; whatever failed before, the number in the name of a
\* clip is the position of its record in that prompts.json.
C12_ClipNumbering ==
    LET composed == [f \in Files |-> PromptsOfFile(f)]
        named == [f \in Files |->
                    [i \in 1..Len(composed[f]) |-> NumberedName(composed[f][i], i)]]
    IN  /\ \A k \in 1..Len(events) :
             ClipWasSaved(k) =>
                LET f == events[k].file
                    i == events[k].idx
                IN  /\ i \in 1..Len(composed[f])
                    /\ \E w \in wav_files :
                         /\ w.dir = BaseOf(json_files[f])
                         /\ w.name = named[f][i]
        /\ \A w \in wav_files :
             \E i \in 1..Len(composed[w.by]) :
                /\ w.name = named[w.by][i]
                /\ \E k \in EventsOf("clip", w.by, i) : ClipWasSaved(k)
        /\ \A pf \in prompt_files :
             /\ pf.dir = BaseOf(json_files[pf.by])
             /\ pf.content = composed[pf.by]
             /\ \A w \in wav_files :
                  w.by = pf.by =>
                     \E i \in 1..Len(pf.content) :
                        /\ SubSeq(w.name, 1, 2) = Pad2(i)
                        /\ w.name = named[pf.by][i]

\* the first variant of a file failed, the second one was saved under the
\* number 02 and the file's prompts.json holds both records
C12_Witness ==
    /\ Done
    /\ \E f \in Files :
         /\ Len(PromptsOfFile(f)) >= 2
         /\ \E k \in EventsOf("clip", f, 1) : ClipFailed(k)
         /\ \E w \in wav_files : w.by = f /\ SubSeq(w.name, 1, 2) = <<"0", "2">>
         /\ \E pf \in prompt_files : pf.by = f /\ Len(pf.content) >= 2

\* the steps of one file in their order: the composition, the variants, the
\* write of prompts.json
OpRank(op) == IF op = "file" THEN 0 ELSE IF op = "clip" THEN 1 ELSE 2

\* log entry a comes before log entry b in the processing of one file
Precedes(a, b) ==
    \/ OpRank(a.op) < OpRank(b.op)
    \/ a.op = "clip" /\ b.op = "clip" /\ a.idx < b.idx

\* C16: the descriptor files are taken in sorted path order; the steps of a
\* file are its composition, then one synthesis per variant in prompt-list
\* order, each after the previous one ended, then the write of prompts.json,
\* which comes after every variant of the file was attempted and before any
\* step of the next file.
C16_StrictlySequential ==
    /\ \A a, b \in Files :
         a < b => StrLess(PathString(json_files[a]), PathString(json_files[b]))
    /\ \A k, m \in 1..Len(events) :
         k < m =>
            \/ events[k].file < events[m].file
            \/ /\ events[k].file = events[m].file
               /\ Precedes(events[k], events[m])
    /\ \A k \in 1..Len(events) :
         events[k].op = "clip" /\ events[k].idx > 1 =>
            /\ k > 1
            /\ events[k - 1].op = "clip"
            /\ events[k - 1].file = events[k].file
            /\ events[k - 1].idx = events[k].idx - 1
    /\ \A k \in 1..Len(events) :
         events[k].op = "dump" =>
            \A i \in 1..Len(PromptsOfFile(events[k].file)) :
               \E m \in 1..(k - 1) :
                  /\ events[m].op = "clip"
                  /\ events[m].file = events[k].file
                  /\ events[m].idx = i

\* two files were processed, each with a synthesis and its prompts.json, the
\* first of them with two variants
C16_Witness ==
    /\ Done
    /\ Len(json_files) >= 2
    /\ Len(PromptsOfFile(1)) >= 2
    /\ EventsOf("dump", 1, 0) # {}
    /\ EventsOf("clip", 2, 1) # {}
    /\ EventsOf("dump", 2, 0) # {}

\* C15: with a fixed seed, the generator state handed to the synthesis of a
\* variant does not depend on what was processed before it: every synthesis
\* request is handed the state of the freshly seeded generator, as the first
\* request of a run is.
C15_AsStated ==
    \A k \in 1..Len(events) :
        events[k].op = "clip" => events[k].generator = SeededState

(***************************************************************************)
(* The prompts.json file: json.dump(prompts, f, ensure_ascii=False,        *)
(* indent=2) and json.load.  A text is a sequence of characters.           *)
(***************************************************************************)
\* the keys of a prompt record, in the order the record is built, and their
\* characters
record_keys == <<"source_name", "play_method", "prompt">>
KeyText ==
    [source_name |-> <<"s", "o", "u", "r", "c", "e", "_", "n", "a", "m", "e">>,
     play_method |-> <<"p", "l", "a", "y", "_", "m", "e", "t", "h", "o", "d">>,
     prompt |-> <<"p", "r", "o", "m", "p", "t">>]

\* json.encoder: the escapes of a string (ensure_ascii=False)
EscapeChar(c) ==
    IF c = "\"" THEN <<"\\", "\"">>
    ELSE IF c = "\\" THEN <<"\\", "\\">>
    ELSE IF c = "\n" THEN <<"\\", "n">>
    ELSE IF c = "\r" THEN <<"\\", "r">>
    ELSE IF c = "\t" THEN <<"\\", "t">>
    ELSE IF c = "\f" THEN <<"\\", "f">>
    ELSE <<c>>

RECURSIVE EscapeChars(_)
EscapeChars(s) == IF s = <<>> THEN <<>> ELSE EscapeChar(Head(s)) \o EscapeChars(Tail(s))

EncodeString(s) == <<"\"">> \o EscapeChars(s) \o <<"\"">>

\* mutant: None is written as the string str(None)
EncodeValueNoneAsStr(v) == EncodeString(ToStr(v))

\* a str is written as a JSON string, None as null
EncodeValue(v) ==
    IF v.type = "NoneType" THEN <<"n", "u", "l", "l">> ELSE EncodeString(v.val)

\* newline and the indentation of nesting level n (indent=2)
NewlineIndent(n) == <<"\n">> \o [i \in 1..(2 * n) |-> " "]

\* the members of a record from key number k on, "key": value, one per line
RECURSIVE EncodeMembers(_, _)
EncodeMembers(rec, k) ==
    IF k > Len(record_keys) THEN <<>>
    ELSE NewlineIndent(2) \o EncodeString(KeyText[record_keys[k]]) \o <<":", " ">>
         \o EncodeValue(rec[record_keys[k]])
         \o (IF k < Len(record_keys) THEN <<",">> ELSE <<>>)
         \o EncodeMembers(rec, k + 1)

EncodeRecord(rec) == <<"{">> \o EncodeMembers(rec, 1) \o NewlineIndent(1) \o <<"}">>

RECURSIVE EncodeElements(_, _)
EncodeElements(list, k) ==
    IF k > Len(list) THEN <<>>
    ELSE NewlineIndent(1) \o EncodeRecord(list[k])
         \o (IF k < Len(list) THEN <<",">> ELSE <<>>)
         \o EncodeElements(list, k + 1)

\* json.dump of a list of prompt records
json_dump(list) ==
    IF list = <<>> THEN <<"[", "]">>
    ELSE <<"[">> \o EncodeElements(list, 1) \o NewlineIndent(0) \o <<"]">>

\* json.decoder
JsonWhitespace == {" ", "\t", "\n", "\r"}

RECURSIVE SkipWhitespace(_, _)
SkipWhitespace(t, i) ==
    IF i <= Len(t) /\ t[i] \in JsonWhitespace THEN SkipWhitespace(t, i + 1) ELSE i

Unescape(c) ==
    IF c = "n" THEN "\n"
    ELSE IF c = "r" THEN "\r"
    ELSE IF c = "t" THEN "\t"
    ELSE IF c = "f" THEN "\f"
    ELSE c

\* the string whose first character is at i (after the opening quote)
RECURSIVE ScanString(_, _, _)
ScanString(t, i, acc) ==
    IF t[i] = "\"" THEN [val |-> JStr(acc), next |-> i + 1]
    ELSE IF t[i] = "\\" THEN ScanString(t, i + 2, Append(acc, Unescape(t[i + 1])))
    ELSE ScanString(t, i + 1, Append(acc, t[i]))

\* a string or null at i
ParseScalar(t, i) ==
    IF t[i] = "\"" THEN ScanString(t, i + 1, <<>>)
    ELSE [val |-> JNull, next |-> i + 4]

KeyOf(chars) == CHOOSE k \in DOMAIN KeyText : KeyText[k] = chars

\* the members of an object from the key at i on; acc holds the ones read
RECURSIVE ParseMembers(_, _, _)
ParseMembers(t, i, acc) ==
    LET key == ScanString(t, i + 1, <<>>)
        colon == SkipWhitespace(t, key.next)
        value == ParseScalar(t, SkipWhitespace(t, colon + 1))
        name == KeyOf(key.val.val)
        read == [k \in DOMAIN acc \cup {name} |->
                    IF k = name THEN value.val ELSE acc[k]]
        j == SkipWhitespace(t, value.next)
    IN  IF t[j] = "," THEN ParseMembers(t, SkipWhitespace(t, j + 1), read)
        ELSE [val |-> read, next |-> j + 1]

\* the object whose "{" is at i
ParseObject(t, i) ==
    LET j == SkipWhitespace(t, i + 1)
    IN  IF t[j] = "}" THEN [val |-> EmptyDict, next |-> j + 1]
        ELSE ParseMembers(t, j, EmptyDict)

\* the elements of an array from the object at i on
RECURSIVE ParseElements(_, _, _)
ParseElements(t, i, acc) ==
    LET element == ParseObject(t, i)
        j == SkipWhitespace(t, element.next)
    IN  IF t[j] = "," THEN ParseElements(t, SkipWhitespace(t, j + 1),
                                         Append(acc, element.val))
        ELSE Append(acc, element.val)

\* json.load of a text that holds an array of objects
json_load(t) ==
    LET j == SkipWhitespace(t, SkipWhitespace(t, 1) + 1)
    IN  IF t[j] = "]" THEN <<>> ELSE ParseElements(t, j, <<>>)

(***************************************************************************)
(* SpecRoundTrip: a prompt list is written to prompts.json and read back.  *)
(***************************************************************************)
\* names, play methods and prompt texts with the characters JSON escapes or
\* gives a meaning to; a play method is None, or a string (among them the
\* strings "None" and "null")
RoundTripNames ==
    {JStr(W_leaf), JStr(<<"a", "\"", "\\", "\n", "b">>), JStr(<<"N", "o", "n", "e">>)}
RoundTripMethods ==
    {JNull, JStr(<<"N", "o", "n", "e">>), JStr(<<"n", "u", "l", "l">>), JStr(W_tap)}
RoundTripTexts ==
    {JStr(<<>>),
     JStr(<<"C", ":", " ", "'", "x", "'", ".", "\n", "\t", "{", "}", ",", "]", "\\", "n">>)}

RoundTripRecords ==
    {[source_name |-> n, play_method |-> m, prompt |-> t] :
        n \in RoundTripNames, m \in RoundTripMethods, t \in RoundTripTexts}

InitRoundTrip ==
    /\ pc = "json_dump"
    /\ dumped_prompts \in SeqsUpTo(RoundTripRecords, MaxVariants)
    /\ prompts_json_text = <<>>
    /\ loaded_prompts = <<>>
    /\ PromptsIdle
    /\ ValidatorIdle
    /\ AudioIdle
    /\ Stage1Idle
    /\ PipelineIdle

\* json.dump(prompts, f, ensure_ascii=False, indent=2)
JsonDump ==
    /\ pc = "json_dump"
    /\ prompts_json_text' = json_dump(dumped_prompts)
    /\ pc' = "json_load"
    /\ UNCHANGED <<dumped_prompts, loaded_prompts, beside_roundtrip_vars>>

\* json.load(f) of the file just written
JsonLoad ==
    /\ pc = "json_load"
    /\ loaded_prompts' = json_load(prompts_json_text)
    /\ pc' = "json_loaded"
    /\ UNCHANGED <<dumped_prompts, prompts_json_text, beside_roundtrip_vars>>

NextRoundTrip == JsonDump \/ JsonLoad

SpecRoundTrip == InitRoundTrip /\ [][NextRoundTrip]_vars

\* C19: the list read back from prompts.json is the list that was written:
\* the same records in the same order, a play method of None read back as
\* None and a string read back as the same string.
C19_RoundTrip ==
    pc = "json_loaded" =>
        /\ Len(loaded_prompts) = Len(dumped_prompts)
        /\ \A k \in 1..Len(dumped_prompts) :
             /\ DOMAIN loaded_prompts[k] = DOMAIN dumped_prompts[k]
             /\ \A key \in DOMAIN dumped_prompts[k] :
                  loaded_prompts[k][key] = dumped_prompts[k][key]

\* two records were written and read back: one without a play method and
\* with a name that needs escapes, one whose play method is the string "None"
C19_Witness ==
    /\ pc = "json_loaded"
    /\ Len(dumped_prompts) >= 2
    /\ dumped_prompts[1].play_method = JNull
    /\ dumped_prompts[1].source_name = JStr(<<"a", "\"", "\\", "\n", "b">>)
    /\ dumped_prompts[1].prompt # JStr(<<>>)
    /\ dumped_prompts[2].play_method = JStr(<<"N", "o", "n", "e">>)
    /\ loaded_prompts = dumped_prompts

(***************************************************************************)
(* image_to_text: process_single_image and batch_process_images.           *)
(* A path is a sequence of characters; the time stamps of the results are  *)
(* left out.                                                               *)
(***************************************************************************)
min_variants == 5

\* count_total_variants raises: sound_sources is None or a non-empty str, or
\* the variants of a source are None
count_total_variants_raises(d) ==
    LET sources == Get(d, "sound_sources", JList(<<>>))
    IN  \/ sources.type = "NoneType"
        \/ sources.type = "str" /\ sources.val # <<>>
        \/ /\ sources.type = "list"
           /\ \E i \in 1..Len(sources.val) :
                Get(sources.val[i], "variants", JList(<<>>)).type = "NoneType"

RECURSIVE SumVariants(_, _)
SumVariants(sources, i) ==
    IF i > Len(sources) THEN 0
    ELSE Len(Get(sources[i], "variants", JList(<<>>)).val) + SumVariants(sources, i + 1)

count_total_variants(d) == SumVariants(Get(d, "sound_sources", JList(<<>>)).val, 1)

NotAvailable == JStr(<<"N", "/", "A">>)

\* the response of the model for one image, parsed by parse_json_response
ParseFailure == [success |-> FALSE, error |-> "No JSON found in response"]
Parsed(d) == [success |-> TRUE, json_data |-> d]

\* lines 35-40: the fields every result starts with
ResultHead(image_path, success) ==
    [image_path |-> JStr(image_path), filename |-> JStr(base_name(image_path)),
     success |-> success]

\* mutant: exactly min_variants variants do not meet the minimum
ResultUpdateStrictMinimum(d) ==
    [json_data |-> d,
     total_variants |-> count_total_variants(d),
     validation_issues |-> validate_json_structure(d),
     meets_minimum_variants |-> count_total_variants(d) > min_variants,
     sound_sources_count |-> Len(Get(d, "sound_sources", JList(<<>>)).val),
     scene_description |-> Get(d, "scene_description", NotAvailable),
     mood_description |-> Get(d, "mood_description", NotAvailable)]

\* lines 46-57: the fields added for a parsed descriptor
ResultUpdate(d) ==
    [json_data |-> d,
     total_variants |-> count_total_variants(d),
     validation_issues |-> validate_json_structure(d),
     meets_minimum_variants |-> count_total_variants(d) >= min_variants,
     sound_sources_count |-> Len(Get(d, "sound_sources", JList(<<>>)).val),
     scene_description |-> Get(d, "scene_description", NotAvailable),
     mood_description |-> Get(d, "mood_description", NotAvailable)]

\* the validation or the count of variants raises
ProcessingRaises(d) == validate_json_structure_raises(d) \/ count_total_variants_raises(d)

\* mutant: a descriptor with validation issues is reported as failed
process_single_image_rejects_issues(image_path, answer, written) ==
    IF ~answer.success
    THEN ResultHead(image_path, FALSE) @@ [error |-> answer.error]
    ELSE IF ProcessingRaises(answer.json_data)
    THEN ResultHead(image_path, FALSE) @@ [error |-> "Processing error"]
    ELSE IF ~written \/ validate_json_structure(answer.json_data) # <<>>
    THEN ResultHead(image_path, FALSE) @@ ResultUpdate(answer.json_data)
         @@ [error |-> "Processing error"]
    ELSE ResultHead(image_path, TRUE) @@ ResultUpdate(answer.json_data)
         @@ [output_json_path |-> DescriptorPath(base_name(image_path))]

\* the result of process_single_image; written tells whether the directory and
\* the descriptor file could be written
process_single_image(image_path, answer, written) ==
    IF ~answer.success
    THEN ResultHead(image_path, FALSE) @@ [error |-> answer.error]
    ELSE IF ProcessingRaises(answer.json_data)
    THEN ResultHead(image_path, FALSE) @@ [error |-> "Processing error"]
    ELSE IF ~written
    THEN ResultHead(image_path, FALSE) @@ ResultUpdate(answer.json_data)
         @@ [error |-> "Processing error"]
    ELSE ResultHead(image_path, TRUE) @@ ResultUpdate(answer.json_data)
         @@ [output_json_path |-> DescriptorPath(base_name(image_path))]

\* the descriptor files after process_single_image: the descriptor is written
\* when nothing raised before the write; a write that fails leaves no file or
\* a file cut short
FilesAfterProcessing(fs, image_path, answer, written, cut_short) ==
    LET path == DescriptorPath(base_name(image_path))
        write(content) ==
            [q \in DOMAIN fs \cup {path} |-> IF q = path THEN content ELSE fs[q]]
    IN  IF ~answer.success \/ ProcessingRaises(answer.json_data) THEN fs
        ELSE IF written THEN write([valid |-> TRUE, data |-> answer.json_data])
        ELSE IF cut_short THEN write([valid |-> FALSE, data |-> EmptyDict])
        ELSE fs

(***************************************************************************)
(* What the vision-language model can answer for an image.                 *)
(***************************************************************************)
\* a descriptor with min_variants variants and no missing key
DescriptorComplete ==
    DescriptorOf(<<[name |-> JStr(W_leaf), material |-> JStr(W_organic),
                    variants |-> JList([k \in 1..min_variants |-> PlainVariant])]>>)

\* one variant; mood_description, the material of the source and the timbre
\* and instrument of the variant are missing
DescriptorMissingKeys ==
    [scene_description |-> JStr(W_forest),
     sound_sources |-> JList(<<[name |-> JStr(W_leaf),
                                variants |-> JList(<<[play_method |-> JStr(W_tap)]>>)]>>)]

\* a missing key, and variants that are null
DescriptorNullVariants ==
    [scene_description |-> JStr(W_forest),
     sound_sources |-> JList(<<[name |-> JStr(W_leaf), material |-> JStr(W_organic),
                                variants |-> JNull]>>)]

\* no missing key, a timbre that is null
DescriptorNullTimbre ==
    DescriptorOf(<<[name |-> JStr(W_leaf), material |-> JStr(W_organic),
                    variants |-> JList(<<[play_method |-> JStr(W_tap),
                                          timbre |-> JNull,
                                          mapping_to_music_instrument |-> JStr(W_oud)]>>)]>>)

\* no missing key, one variant
DescriptorSmall ==
    DescriptorOf(<<[name |-> JStr(W_leaf), material |-> JStr(W_organic),
                    variants |-> JList(<<PlainVariant>>)]>>)

\* no missing key, no sound source
DescriptorNoSources == DescriptorOf(<<>>)

\* the older format: the sources are under "objects"
DescriptorObjectsKey ==
    [scene_description |-> JStr(W_forest), mood_description |-> JStr(W_calm),
     objects |-> JList(<<[name |-> JStr(W_leaf), material |-> JStr(W_organic),
                          variants |-> JList(<<PlainVariant>>)]>>)]

VlmOutputs(image_path) ==
    IF image_path = ImageA
    THEN {ParseFailure, Parsed(DescriptorComplete), Parsed(DescriptorMissingKeys),
          Parsed(DescriptorNullVariants), Parsed(DescriptorNullTimbre)}
    ELSE IF image_path = ImageB
    THEN {ParseFailure, Parsed(DescriptorSmall), Parsed(DescriptorNoSources),
          Parsed(DescriptorObjectsKey)}
    ELSE {ParseFailure}

(***************************************************************************)
(* batch_process_images                                                    *)
(***************************************************************************)
\* load_qwen_vl raises: the exception leaves batch_process_images
BatchLoadFails ==
    /\ pc = "batch_load"
    /\ pc' = "pipeline_raised"
    /\ UNCHANGED <<beside_pipeline_vars, audio_vars, stage1_vars, pipeline_vars>>

\* ensure_dir, the model and the prompt are loaded
BatchModelLoaded ==
    /\ pc = "batch_load"
    /\ pc' = "batch_find"
    /\ UNCHANGED <<beside_pipeline_vars, audio_vars, stage1_vars, pipeline_vars>>

\* if not image_files: return {"error": "No images found"}
BatchNoImages ==
    /\ pc = "batch_find"
    /\ image_files = <<>>
    /\ vlm_results' = [error |-> "No images found"]
    /\ pc' = "batch_returned"
    /\ UNCHANGED <<beside_pipeline_vars, audio_vars, stage1_vars, results_keys, dependencies_ok,
                   skip_vlm, skip_audio, single_image, steps_completed, errors>>

\* the four result lists are created and the loop starts
BatchBegin ==
    /\ pc = "batch_find"
    /\ image_files # <<>>
    /\ image_index' = 1
    /\ all_results' = <<>>
    /\ successful_results' = <<>>
    /\ failed_results' = <<>>
    /\ insufficient_variants' = <<>>
    /\ pc' = "batch_image"
    /\ UNCHANGED <<beside_pipeline_vars, audio_vars, image_files, parsed, descriptor_saved,
                   pipeline_vars>>

\* mutant: the loop stops at the first image that fails
BatchProcessImageStopsAtFailure ==
    /\ pc = "batch_image"
    /\ image_index <= Len(image_files)
    /\ \E answer \in VlmOutputs(image_files[image_index]), written, cut_short \in BOOLEAN :
         LET result == process_single_image(image_files[image_index], answer, written)
         IN  /\ parsed' = answer
             /\ descriptor_saved' = written
             /\ all_results' = Append(all_results, result)
             /\ successful_results' =
                    IF result.success THEN Append(successful_results, result)
                    ELSE successful_results
             /\ insufficient_variants' =
                    IF result.success /\ ~result.meets_minimum_variants
                    THEN Append(insufficient_variants, result)
                    ELSE insufficient_variants
             /\ failed_results' =
                    IF result.success THEN failed_results
                    ELSE Append(failed_results, result)
             /\ sound_source_fs' =
                    FilesAfterProcessing(sound_source_fs, image_files[image_index],
                                         answer, written, cut_short)
             /\ image_index' = IF result.success THEN image_index + 1
                               ELSE Len(image_files) + 1
    /\ UNCHANGED <<pc, beside_pipeline_vars, single, json_files, file_index, prompts,
                   idx, total_audio_generated, wav_files, prompt_files, out_dirs,
                   generator, events, image_files, pipeline_vars>>

\* one iteration of the loop (lines 176-187): process_single_image and the
\* sorting of its result into the lists
BatchProcessImage ==
    /\ pc = "batch_image"
    /\ image_index <= Len(image_files)
    /\ \E answer \in VlmOutputs(image_files[image_index]), written, cut_short \in BOOLEAN :
         LET result == process_single_image(image_files[image_index], answer, written)
         IN  /\ parsed' = answer
             /\ descriptor_saved' = written
             /\ all_results' = Append(all_results, result)
             /\ successful_results' =
                    IF result.success THEN Append(successful_results, result)
                    ELSE successful_results
             /\ insufficient_variants' =
                    IF result.success /\ ~result.meets_minimum_variants
                    THEN Append(insufficient_variants, result)
                    ELSE insufficient_variants
             /\ failed_results' =
                    IF result.success THEN failed_results
                    ELSE Append(failed_results, result)
             /\ sound_source_fs' =
                    FilesAfterProcessing(sound_source_fs, image_files[image_index],
                                         answer, written, cut_short)
    /\ image_index' = image_index + 1
    /\ UNCHANGED <<pc, beside_pipeline_vars, single, json_files, file_index, prompts,
                   idx, total_audio_generated, wav_files, prompt_files, out_dirs,
                   generator, events, image_files, pipeline_vars>>

\* the summary is built, written to processing_summary.json and returned
BatchSummaryWritten ==
    /\ pc = "batch_image"
    /\ image_index > Len(image_files)
    /\ vlm_results' =
           [summary |-> [processing_info |->
                             [total_images |-> Len(image_files),
                              successful |-> Len(successful_results),
                              failed |-> Len(failed_results),
                              insufficient_variants |-> Len(insufficient_variants)],
                         results |-> all_results],
            successful_results |-> successful_results,
            failed_results |-> failed_results,
            insufficient_variants |-> insufficient_variants]
    /\ pc' = "batch_returned"
    /\ UNCHANGED <<beside_pipeline_vars, audio_vars, stage1_vars, results_keys, dependencies_ok,
                   skip_vlm, skip_audio, single_image, steps_completed, errors>>

\* the write of processing_summary.json raises
BatchSummaryFails ==
    /\ pc = "batch_image"
    /\ image_index > Len(image_files)
    /\ pc' = "pipeline_raised"
    /\ UNCHANGED <<beside_pipeline_vars, audio_vars, stage1_vars, pipeline_vars>>

(***************************************************************************)
(* process_single_image_with_vlm.  vlm_results holds what the VLM stage    *)
(* returned to run_full_pipeline: the result of the single image, or the   *)
(* dict of batch_process_images.                                           *)
(***************************************************************************)
\* load_qwen_vl or the prompt loading raises: the except returns a failure
SingleLoadFails ==
    /\ pc = "single_load"
    /\ vlm_results' = [success |-> FALSE, error |-> "Processing error"]
    /\ pc' = "single_returned"
    /\ UNCHANGED <<beside_pipeline_vars, audio_vars, stage1_vars, results_keys, dependencies_ok,
                   skip_vlm, skip_audio, single_image, steps_completed, errors>>

\* the model is loaded and process_single_image returns
SingleProcess ==
    /\ pc = "single_load"
    /\ \E answer \in VlmOutputs(single_image.val), written, cut_short \in BOOLEAN :
         /\ parsed' = answer
         /\ descriptor_saved' = written
         /\ vlm_results' = process_single_image(single_image.val, answer, written)
         /\ sound_source_fs' =
                FilesAfterProcessing(sound_source_fs, single_image.val, answer,
                                     written, cut_short)
    /\ pc' = "single_returned"
    /\ UNCHANGED <<beside_pipeline_vars, single, json_files, file_index, prompts,
                   idx, total_audio_generated, wav_files, prompt_files, out_dirs,
                   generator, events, batch_vars, results_keys, dependencies_ok, skip_vlm,
                   skip_audio, single_image, steps_completed, errors>>

(***************************************************************************)
(* main.run_full_pipeline                                                  *)
(***************************************************************************)
\* if not check_dependencies(): errors.append(...); return results
DependenciesFail ==
    /\ pc = "main_start"
    /\ ~dependencies_ok
    /\ errors' = Append(errors, "dependency_check_failed")
    /\ pc' = "main_returned"
    /\ UNCHANGED <<beside_pipeline_vars, audio_vars, stage1_vars, vlm_results,
                   results_keys, dependencies_ok, skip_vlm, skip_audio, single_image,
                   steps_completed>>

DependenciesPass ==
    /\ pc = "main_start"
    /\ dependencies_ok
    /\ steps_completed' = Append(steps_completed, "dependency_check")
    /\ pc' = "main_vlm"
    /\ UNCHANGED <<beside_pipeline_vars, audio_vars, stage1_vars, vlm_results,
                   results_keys, dependencies_ok, skip_vlm, skip_audio, single_image, errors>>

VlmSkipped ==
    /\ pc = "main_vlm"
    /\ skip_vlm
    /\ steps_completed' = Append(steps_completed, "vlm_skipped")
    /\ pc' = "main_check"
    /\ UNCHANGED <<beside_pipeline_vars, audio_vars, stage1_vars, vlm_results,
                   results_keys, dependencies_ok, skip_vlm, skip_audio, single_image, errors>>

\* if single_image: process_single_image_with_vlm(single_image, sound_sources_dir)
VlmSingleCall ==
    /\ pc = "main_vlm"
    /\ ~skip_vlm
    /\ Truthy(single_image)
    /\ pc' = "single_load"
    /\ UNCHANGED <<beside_pipeline_vars, audio_vars, stage1_vars, pipeline_vars>>

\* else: batch_process_images(data_dir, sound_sources_dir)
VlmBatchCall ==
    /\ pc = "main_vlm"
    /\ ~skip_vlm
    /\ ~Truthy(single_image)
    /\ pc' = "batch_load"
    /\ UNCHANGED <<beside_pipeline_vars, audio_vars, stage1_vars, pipeline_vars>>

\* if result.get("success"): "vlm_single" is recorded, else an error
VlmSingleReturned ==
    /\ pc = "single_returned"
    /\ IF vlm_results.success
       THEN /\ steps_completed' = Append(steps_completed, "vlm_single")
            /\ errors' = errors
       ELSE /\ errors' = Append(errors, "vlm_single_failed")
            /\ steps_completed' = steps_completed
    /\ pc' = "main_check"
    /\ UNCHANGED <<beside_pipeline_vars, audio_vars, stage1_vars, vlm_results,
                   results_keys, dependencies_ok, skip_vlm, skip_audio, single_image>>

\* if vlm_results and not vlm_results.get("error"): "vlm_batch" is recorded
VlmBatchReturned ==
    /\ pc = "batch_returned"
    /\ IF "error" \notin DOMAIN vlm_results
       THEN /\ steps_completed' = Append(steps_completed, "vlm_batch")
            /\ results_keys' = results_keys \cup {"vlm_results"}
            /\ errors' = errors
       ELSE /\ errors' = Append(errors, "vlm_batch_failed")
            /\ steps_completed' = steps_completed
            /\ results_keys' = results_keys
    /\ pc' = "main_check"
    /\ UNCHANGED <<beside_pipeline_vars, audio_vars, stage1_vars, vlm_results,
                   dependencies_ok, skip_vlm, skip_audio, single_image>>

\* the outer except of run_full_pipeline, then end_time is set (line 199)
PipelineException ==
    /\ pc = "pipeline_raised"
    /\ errors' = Append(errors, "pipeline_error")
    /\ results_keys' = results_keys \cup {"end_time"}
    /\ pc' = "main_returned"
    /\ UNCHANGED <<beside_pipeline_vars, audio_vars, stage1_vars, vlm_results,
                   dependencies_ok, skip_vlm, skip_audio, single_image,
                   steps_completed>>

\* os.walk(sound_sources_dir) finds no *_sound_source.json: return results
NoSoundSourceFiles ==
    /\ pc = "main_check"
    /\ DOMAIN sound_source_fs = {}
    /\ errors' = Append(errors, "no_sound_source_files")
    /\ pc' = "main_returned"
    /\ UNCHANGED <<beside_pipeline_vars, audio_vars, stage1_vars, vlm_results,
                   results_keys, dependencies_ok, skip_vlm, skip_audio, single_image,
                   steps_completed>>

SoundSourcesFound ==
    /\ pc = "main_check"
    /\ DOMAIN sound_source_fs # {}
    /\ results_keys' = results_keys \cup {"sound_source_files"}
    /\ pc' = "main_audio"
    /\ UNCHANGED <<beside_pipeline_vars, audio_vars, stage1_vars, vlm_results,
                   dependencies_ok, skip_vlm, skip_audio, single_image,
                   steps_completed, errors>>

AudioSkipped ==
    /\ pc = "main_audio"
    /\ skip_audio
    /\ steps_completed' = Append(steps_completed, "audio_skipped")
    /\ pc' = "main_end"
    /\ UNCHANGED <<beside_pipeline_vars, audio_vars, stage1_vars, vlm_results,
                   results_keys, dependencies_ok, skip_vlm, skip_audio, single_image, errors>>

\* mutant: the audio stage is called whether or not skip_audio is set
AudioCallIgnoresSkip ==
    /\ pc = "main_audio"
    /\ single' = single_image
    /\ pc' = "start"
    /\ UNCHANGED <<beside_pipeline_vars, sound_source_fs, json_files, file_index,
                   prompts, idx, total_audio_generated, wav_files, prompt_files,
                   out_dirs, generator, events, stage1_vars, pipeline_vars>>

\* generate_audio(..., single=single_image), which is audioldm2.run_generation
AudioCall ==
    /\ pc = "main_audio"
    /\ ~skip_audio
    /\ single' = single_image
    /\ pc' = "start"
    /\ UNCHANGED <<beside_pipeline_vars, sound_source_fs, json_files, file_index,
                   prompts, idx, total_audio_generated, wav_files, prompt_files,
                   out_dirs, generator, events, stage1_vars, pipeline_vars>>

\* generate_audio_for_sound_sources returned, so run_generation returns
AudioGenerationReturns ==
    /\ pc = "done"
    /\ steps_completed' = Append(steps_completed, "audio_generation")
    /\ pc' = "main_end"
    /\ UNCHANGED <<beside_pipeline_vars, audio_vars, stage1_vars, vlm_results,
                   results_keys, dependencies_ok, skip_vlm, skip_audio, single_image, errors>>

\* generate_audio_for_sound_sources raised: run_generation catches the
\* exception and returns all the same
AudioGenerationCaught ==
    /\ pc = "raised"
    /\ steps_completed' = Append(steps_completed, "audio_generation")
    /\ pc' = "main_end"
    /\ UNCHANGED <<beside_pipeline_vars, audio_vars, stage1_vars, vlm_results,
                   results_keys, dependencies_ok, skip_vlm, skip_audio, single_image, errors>>

\* the closing report; end_time is set (line 199) and results are returned
PipelineEnds ==
    /\ pc = "main_end"
    /\ results_keys' = results_keys \cup {"end_time"}
    /\ pc' = "main_returned"
    /\ UNCHANGED <<beside_pipeline_vars, audio_vars, stage1_vars, vlm_results,
                   dependencies_ok, skip_vlm, skip_audio, single_image,
                   steps_completed, errors>>

(***************************************************************************)
(* SpecPipeline: one run of run_full_pipeline.  The listing of data_dir    *)
(* and the descriptor files left by earlier runs are inputs.               *)
(***************************************************************************)
ImageListings == {<<>>, <<ImageA>>, <<ImageA, ImageB>>}

EarlierDescriptors ==
    {EmptyDict,
     [q \in {DescriptorPath(base_name(ImageB))} |->
        [valid |-> TRUE, data |-> DescriptorSmall]]}

InitPipeline ==
    /\ pc = "main_start"
    /\ results_keys = {"start_time", "steps_completed", "errors"}
    /\ dependencies_ok \in BOOLEAN
    /\ skip_vlm \in BOOLEAN
    /\ skip_audio \in BOOLEAN
    /\ single_image \in {JNull, JStr(ImageA), JStr(ImageC)}
    /\ image_files \in ImageListings
    /\ sound_source_fs \in EarlierDescriptors
    /\ vlm_results = EmptyDict
    /\ steps_completed = <<>>
    /\ errors = <<>>
    /\ image_index = 0
    /\ all_results = <<>>
    /\ successful_results = <<>>
    /\ failed_results = <<>>
    /\ insufficient_variants = <<>>
    /\ parsed = EmptyDict
    /\ descriptor_saved = FALSE
    /\ single = JNull
    /\ json_files = <<>>
    /\ file_index = 0
    /\ prompts = <<>>
    /\ idx = 0
    /\ total_audio_generated = 0
    /\ wav_files = {}
    /\ prompt_files = {}
    /\ out_dirs = {}
    /\ generator = SeededState
    /\ events = <<>>
    /\ PromptsIdle
    /\ ValidatorIdle
    /\ RoundTripIdle

NextPipeline ==
    \/ DependenciesFail
    \/ DependenciesPass
    \/ VlmSkipped
    \/ VlmSingleCall
    \/ VlmBatchCall
    \/ SingleLoadFails
    \/ SingleProcess
    \/ VlmSingleReturned
    \/ BatchLoadFails
    \/ BatchModelLoaded
    \/ BatchNoImages
    \/ BatchBegin
    \/ BatchProcessImage
    \/ BatchSummaryWritten
    \/ BatchSummaryFails
    \/ VlmBatchReturned
    \/ PipelineException
    \/ NoSoundSourceFiles
    \/ SoundSourcesFound
    \/ AudioSkipped
    \/ AudioCall
    \/ LoadPipeline
    \/ LoadPipelineFails
    \/ FindJsonFiles
    \/ NoJsonFiles
    \/ LoadFails
    \/ ComposeFails
    \/ NoPrompts
    \/ BeginClips
    \/ ClipSaved
    \/ SynthesisFails
    \/ SaveFails
    \/ DumpPrompts
    \/ Finish
    \/ AudioGenerationReturns
    \/ AudioGenerationCaught
    \/ PipelineEnds

SpecPipeline == InitPipeline /\ [][NextPipeline]_vars

(***************************************************************************)
(* Properties of stage 1 and of the pipeline, checked under SpecPipeline.  *)
(***************************************************************************)
BatchReturned == "summary" \in DOMAIN vlm_results

Successful(results) == LET ok(r) == r.success IN SelectSeq(results, ok)
Failed(results) == LET ko(r) == ~r.success IN SelectSeq(results, ko)
BelowMinimum(results) ==
    LET few(r) == r.total_variants < min_variants IN SelectSeq(results, few)

\* C11: after batch_process_images over a non-empty image list, the results
\* hold every image once and in input order, each result is in exactly one of
\* successful_results and failed_results (successful + failed = total_images),
\* insufficient_variants is the successful results with total_variants < 5,
\* and an image that fails does not keep later images from being processed.
C11_BatchBookkeeping ==
    BatchReturned =>
        LET results == vlm_results.summary.results
            info == vlm_results.summary.processing_info
        IN  /\ info.total_images = Len(image_files)
            /\ Len(results) = Len(image_files)
            /\ \A i \in 1..Len(image_files) :
                 results[i].image_path = JStr(image_files[i])
            /\ vlm_results.successful_results = Successful(results)
            /\ vlm_results.failed_results = Failed(results)
            /\ info.successful = Len(vlm_results.successful_results)
            /\ info.failed = Len(vlm_results.failed_results)
            /\ info.successful + info.failed = info.total_images
            /\ vlm_results.insufficient_variants =
                   BelowMinimum(vlm_results.successful_results)
            /\ info.insufficient_variants = Len(vlm_results.insufficient_variants)

\* the first image failed while validating, the second one was processed and
\* is below the minimum
C11_Witness ==
    /\ BatchReturned
    /\ Len(image_files) = 2
    /\ ~vlm_results.summary.results[1].success
    /\ vlm_results.summary.results[1].error = "Processing error"
    /\ vlm_results.summary.results[2].success
    /\ Len(vlm_results.insufficient_variants) = 1

\* process_single_image was called: the image, the answer and the result of
\* the last call
Processed == parsed # EmptyDict
LastImage ==
    IF Truthy(single_image) THEN single_image.val ELSE image_files[Len(all_results)]
LastResult ==
    IF Truthy(single_image) THEN vlm_results ELSE all_results[Len(all_results)]
LastDescriptorPath == DescriptorPath(base_name(LastImage))
LastDescriptorWritten ==
    /\ LastDescriptorPath \in DOMAIN sound_source_fs
    /\ sound_source_fs[LastDescriptorPath] = [valid |-> TRUE, data |-> parsed.json_data]

\* the answer was parsed and its variants can be counted
ParsedAndCounted ==
    /\ Processed
    /\ parsed.success
    /\ ~count_total_variants_raises(parsed.json_data)

\* the audio stage went through file f, a descriptor with fewer variants than
\* the minimum whose prompts can be composed
FewVariantsFile(f) ==
    /\ f < file_index
    /\ ContentAt(f).valid
    /\ LET d == _objects_to_sound_sources_if_needed(ContentAt(f).data)
       IN  /\ ~generate_prompts_raises(d)
           /\ ~count_total_variants_raises(d)
           /\ count_total_variants(d) < 5

\* synthesis was run for every prompt of file f
ClipsAttempted(f) ==
    LET d == _objects_to_sound_sources_if_needed(ContentAt(f).data)
    IN  \A i \in 1..Len(generate_prompts(d, JNull)) :
          \E k \in 1..Len(events) :
            events[k].op = "clip" /\ events[k].file = f /\ events[k].idx = i

AudioIgnoresMinimum ==
    \A f \in 1..Len(json_files) : FewVariantsFile(f) => ClipsAttempted(f)

C13_WitnessMinimum ==
    /\ ParsedAndCounted
    /\ count_total_variants(parsed.json_data) = 5
    /\ LastResult.meets_minimum_variants

\* the number of required keys that d misses, over its three levels
MissingAmong(d, fields) == Cardinality({k \in 1..Len(fields) : fields[k] \notin DOMAIN d})

RECURSIVE MissingInVariants(_, _)
MissingInVariants(variants, j) ==
    IF j > Len(variants) THEN 0
    ELSE MissingAmong(variants[j], variant_required) + MissingInVariants(variants, j + 1)

RECURSIVE MissingInSources(_, _)
MissingInSources(sources, i) ==
    IF i > Len(sources) THEN 0
    ELSE MissingAmong(sources[i], source_required)
         + (IF "variants" \in DOMAIN sources[i] /\ sources[i]["variants"].type = "list"
            THEN MissingInVariants(sources[i]["variants"].val, 1)
            ELSE 0)
         + MissingInSources(sources, i + 1)

MissingKeyCount(d) ==
    MissingAmong(d, required_fields)
    + (IF "sound_sources" \in DOMAIN d /\ d["sound_sources"].type = "list"
       THEN MissingInSources(d["sound_sources"].val, 1)
       ELSE 0)

\* the answer was parsed and misses a required key
StructuralError == Processed /\ parsed.success /\ MissingKeyCount(parsed.json_data) > 0

\* the descriptor is persisted, the result is a success and names one issue
\* for each missing key
ReportedNotFatal ==
    /\ LastResult.success
    /\ LastDescriptorWritten
    /\ LastResult.output_json_path = LastDescriptorPath
    /\ Len(LastResult.validation_issues) = MissingKeyCount(parsed.json_data)

C14_FatalWitness ==
    /\ StructuralError
    /\ ProcessingRaises(parsed.json_data)
    /\ ~LastResult.success
    /\ LastDescriptorPath \notin DOMAIN sound_source_fs

\* stage 1 processed the single image with success
SingleProcessed == Truthy(single_image) /\ Processed /\ vlm_results.success

\* the audio stage, called with single = single_image, has listed its files
SingleListed == Truthy(single) /\ (pc = "done" \/ file_index >= 1)

\* the audio stage is through with the descriptor of the single image, whose
\* prompts were composed
SingleComposed ==
    /\ SingleListed
    /\ file_index > 1
    /\ ContentAt(1).valid
    /\ ~generate_prompts_raises(_objects_to_sound_sources_if_needed(ContentAt(1).data))
    /\ generate_prompts(_objects_to_sound_sources_if_needed(ContentAt(1).data), JNull) # <<>>

\* C17: an image P processed with success by stage 1 has its descriptor at
\* <base>/<base>_sound_source.json below the output directory, base being the
\* file name of P without extension; the audio stage called with single = P
\* selects exactly that file, and its clips and prompts.json are written in
\* the directory <base> below result_dir.
C17_HandOffByPath ==
    SingleProcessed =>
        LET base == base_name(single_image.val)
            path == [folder |-> base, stem |-> base]
        IN  /\ vlm_results.output_json_path = path
            /\ path \in DOMAIN sound_source_fs
            /\ sound_source_fs[path] = [valid |-> TRUE, data |-> vlm_results.json_data]
            /\ SingleListed => json_files = <<path>>
            /\ \A w \in wav_files : w.dir = base
            /\ \A f \in prompt_files : f.dir = base
            /\ out_dirs \subseteq {base}
            /\ SingleComposed =>
                 \E f \in prompt_files :
                   /\ f.dir = base
                   /\ f.content = generate_prompts(vlm_results.json_data, JNull)

\* data/101.jpg was processed, its descriptor selected, and a clip and
\* prompts.json were written in 101
C17_Witness ==
    /\ SingleProcessed
    /\ single = JStr(ImageA)
    /\ json_files = <<[folder |-> W_101, stem |-> W_101]>>
    /\ \E w \in wav_files : w.dir = W_101
    /\ \E f \in prompt_files : f.dir = W_101

\* the control is inside the VLM stage, inside the audio stage
VlmRunning ==
    pc \in {"single_load", "single_returned", "batch_load", "batch_find",
            "batch_image", "batch_returned"}
AudioRunning == pc \in {"start", "find", "file", "clip", "dump", "done", "raised"}

\* neither stage has done anything
NoStageRan ==
    /\ ~VlmRunning
    /\ ~AudioRunning
    /\ parsed = EmptyDict
    /\ all_results = <<>>
    /\ vlm_results = EmptyDict
    /\ events = <<>>
    /\ json_files = <<>>
    /\ wav_files = {}
    /\ prompt_files = {}

\* the place of a step in the order dependency check, VLM step, audio step
StepRank(step) ==
    IF step = "dependency_check" THEN 1
    ELSE IF step \in {"vlm_single", "vlm_batch", "vlm_skipped"} THEN 2
    ELSE IF step \in {"audio_generation", "audio_skipped"} THEN 3
    ELSE 0

\* C20: the audio stage is invoked only after the dependency check has
\* passed, with skip_audio false and at least one descriptor file under
\* sound_sources_dir; when the dependency check fails no stage runs and
\* steps_completed stays empty; steps are recorded in the order
\* dependency_check, VLM step, audio step.
C20_StageOrder ==
    /\ AudioRunning =>
         /\ dependencies_ok
         /\ steps_completed # <<>>
         /\ steps_completed[1] = "dependency_check"
         /\ ~skip_audio
         /\ DOMAIN sound_source_fs # {}
    /\ ~dependencies_ok => steps_completed = <<>> /\ NoStageRan
    /\ \A i \in 1..Len(steps_completed) :
         /\ StepRank(steps_completed[i]) > 0
         /\ \A j \in 1..Len(steps_completed) :
              i < j => StepRank(steps_completed[i]) < StepRank(steps_completed[j])
    /\ steps_completed # <<>> => steps_completed[1] = "dependency_check"

\* the three steps were recorded and the audio stage saved a clip
C20_Witness ==
    /\ pc = "main_returned"
    /\ steps_completed = <<"dependency_check", "vlm_batch", "audio_generation">>
    /\ wav_files # {}

\* the dependency check failed and the pipeline returned
C20_FailedCheckWitness ==
    /\ pc = "main_returned"
    /\ ~dependencies_ok
    /\ errors = <<"dependency_check_failed">>

\* the steps recorded so far
StepsRecorded == {steps_completed[i] : i \in 1..Len(steps_completed)}

\* C21: when the audio stage ends with an error, run_full_pipeline adds an
\* entry to errors and does not record "audio_generation"; "audio_generation"
\* is recorded only when the audio stage ended without an error.
C21_AsStated ==
    [][/\ pc = "raised" /\ pc' # "raised"
          => /\ Len(errors') = Len(errors) + 1
             /\ steps_completed' = steps_completed
       /\ "audio_generation" \in StepsRecorded' \ StepsRecorded
          => pc = "done"]_vars

\* run_full_pipeline has returned its results
PipelineReturned == pc = "main_returned"

\* C22: every result returned by run_full_pipeline holds start_time and
\* end_time, on every exit path.
C22_AsStated == PipelineReturned => {"start_time", "end_time"} \subseteq results_keys

\* the exit paths that go through line 199: normal completion and an exception
\* inside the pipeline
C22_TimedExit ==
    /\ PipelineReturned
    /\ "end_time" \in results_keys
    /\ errors # <<>>
    /\ errors[Len(errors)] = "pipeline_error"

(***************************************************************************)
(* Further properties of the audio stage, checked under Spec.              *)
(***************************************************************************)
\* the files that got an output directory
FilesWithOutput == {f \in Files : \E k \in EventsOf("file", f, 0) : events[k].result = "composed"}

\* C23: in one batch run, two different descriptor files never write to the
\* same output directory, and no clip or prompts.json of a file is
\* overwritten by the outputs of another file.
C23_AsStated ==
    /\ \A f, g \in FilesWithOutput :
         f # g => BaseOf(json_files[f]) # BaseOf(json_files[g])
    /\ \A f \in Files :
         EventsOf("dump", f, 0) # {} => \E pf \in prompt_files : pf.by = f
    /\ \A k \in 1..Len(events) :
         ClipWasSaved(k) =>
            \E w \in wav_files :
               /\ w.by = events[k].file
               /\ w.name = OutName(PromptsOfFile(events[k].file)[events[k].idx],
                                   events[k].idx)

\* two descriptor files of one image folder were processed, and the
\* prompts.json of the first one is gone
C23_Overwritten ==
    /\ Done
    /\ \E f, g \in FilesWithOutput :
         /\ f < g
         /\ BaseOf(json_files[f]) = BaseOf(json_files[g])
         /\ EventsOf("dump", f, 0) # {}
         /\ \A pf \in prompt_files : pf.by # f

(***************************************************************************)
(* Further properties of the pipeline, checked under SpecPipeline.         *)
(***************************************************************************)
\* the positions at which the audio stage went through the descriptor that
\* stage 1 persisted last
PersistedFiles ==
    {f \in 1..Len(json_files) : f < file_index /\ json_files[f] = LastDescriptorPath}

\* the variants of file f for which synthesis was requested
ClipsRequested(f) ==
    {i \in 1..Len(events) : events[i].op = "clip" /\ events[i].file = f}

\* C24: for a descriptor persisted by stage 1, the recorded total_variants is
\* the number of prompt records the audio stage composes for it, and the
\* number of clips it attempts.
C24_AsStated ==
    Processed /\ LastResult.success =>
        /\ LastResult.total_variants
             = PromptCount([valid |-> TRUE, data |-> parsed.json_data])
        /\ \A f \in PersistedFiles :
             sound_source_fs[json_files[f]].data = parsed.json_data
                => Cardinality(ClipsRequested(f)) = LastResult.total_variants

\* stage 1 recorded no variant for a descriptor in the older format, and the
\* audio stage requested a clip for it
C24_ObjectsKey ==
    /\ Processed
    /\ LastResult.success
    /\ parsed.json_data = DescriptorObjectsKey
    /\ LastResult.total_variants = 0
    /\ \E f \in PersistedFiles : ClipsRequested(f) # {}

\* stage 1 recorded one variant for a descriptor with a null timbre, and the
\* audio stage could not compose its prompts
C24_NullTimbre ==
    /\ Processed
    /\ LastResult.success
    /\ parsed.json_data = DescriptorNullTimbre
    /\ LastResult.total_variants = 1
    /\ \E f \in PersistedFiles : ClipsRequested(f) = {}

(***************************************************************************)
(* A descriptor without variants, checked under Spec.                      *)
(***************************************************************************)
\* the files the outer loop has gone past
PassedFiles == {f \in Files : f < file_index \/ pc = "done"}

\* C25: a descriptor that is loaded and yields an empty prompt list leaves no
\* output directory, clip or prompts.json of its own and no synthesis
\* request, and the loop goes on: the files after it are taken up.
C25_EmptyDescriptorSkipped ==
    LET composed == [f \in Files |-> PromptsOfFile(f)]
        empty == {f \in PassedFiles : ~FailsToCompose(f) /\ composed[f] = <<>>}
    IN  /\ out_dirs \subseteq
              {BaseOf(json_files[g]) : g \in {h \in Files : composed[h] # <<>>}}
        /\ \A f \in empty :
              /\ \A k \in 1..Len(events) :
                    events[k].file = f =>
                        /\ events[k].op = "file"
                        /\ events[k].result = "no_prompts"
              /\ Cardinality(EventsOf("file", f, 0)) = 1
              /\ \A w \in wav_files : w.by # f
              /\ \A pf \in prompt_files : pf.by # f
              /\ \A g \in Files :
                    g > f /\ Done => Cardinality(EventsOf("file", g, 0)) = 1

\* a run that met a descriptor without variants, made no directory for it,
\* and saved a clip of a later file
C25_Witness ==
    /\ Done
    /\ \E f, g \in Files :
          /\ f < g
          /\ ~FailsToCompose(f)
          /\ PromptsOfFile(f) = <<>>
          /\ BaseOf(json_files[f]) \notin out_dirs
          /\ \E k \in 1..Len(events) : ClipWasSaved(k) /\ events[k].file = g

====
